---- MODULE Spec2Model ----
(***************************************************************************)
(* A model of src/table.py: TableColumn (constraint checking and the       *)
(* per-column set of unique values) and Table (primary store, secondary    *)
(* indexes, row order, JSON snapshot).                                     *)
(*                                                                         *)
(* Python values are records [t |-> <type name>, v |-> <payload>]:         *)
(*   PyInt(n) is the int n, PyTuple(n) the tuple (n,), PyList(n) the list  *)
(*   [n], PyNone is None.                                                  *)
(* A raised exception is modelled by the name of its class; OK means the   *)
(* call returned.                                                          *)
(***************************************************************************)
EXTENDS Integers, Sequences, FiniteSets, TLC

\* Bounds of the model.
MaxKey == 2
MaxVal == 2
MaxRows == 2
MaxFailures == 1

VARIABLES
    columns,         \* Table.columns: the TableColumn objects (their flags)
    unique_data,     \* TableColumn._unique_data of each unique column, by position
    primary_column,  \* position of Table.primary_column in columns; 0: no Table yet
    primary_hash,    \* Table.primary_hash: an insertion-ordered dict key -> row
    index_hash,      \* Table.index_hash: column name -> (value -> set of keys)
    row_order,       \* Table.row_order
    file,            \* the JSON file at path: <<>> before any save, else <<its content>>
    outcome,         \* the last call and how it ended
    failures         \* history: the number of calls that have raised so far

vars == <<columns, unique_data, primary_column, primary_hash, index_hash,
          row_order, file, outcome, failures>>

OK == "ok"

----------------------------------------------------------------------------
\* Python values

PyNone == [t |-> "NoneType", v |-> 0]
PyInt(n) == [t |-> "int", v |-> n]
PyTuple(n) == [t |-> "tuple", v |-> n]
PyList(n) == [t |-> "list", v |-> n]

\* hash(data) raises TypeError for a list.
Hashable(data) == data.t # "list"

\* TableColumn._repr_to_type: type tag -> type.
ReprToType ==
    [r \in {"<int>", "<float>", "<str>", "<list>", "<tuple>", "<dict>", "<bool>",
            "<None>", "<datetime.datetime>", "<datetime.date>", "<datetime.time>",
            "<decimal.Decimal>", "<bytes>", "<bytearray>", "<collections.Counter>",
            "<collections.OrderedDict>"} |->
        CASE r = "<int>" -> "int"
          [] r = "<float>" -> "float"
          [] r = "<str>" -> "str"
          [] r = "<list>" -> "list"
          [] r = "<tuple>" -> "tuple"
          [] r = "<dict>" -> "dict"
          [] r = "<bool>" -> "bool"
          [] r = "<None>" -> "None"
          [] r = "<datetime.datetime>" -> "datetime.datetime"
          [] r = "<datetime.date>" -> "datetime.date"
          [] r = "<datetime.time>" -> "datetime.time"
          [] r = "<decimal.Decimal>" -> "decimal.Decimal"
          [] r = "<bytes>" -> "bytes"
          [] r = "<bytearray>" -> "bytearray"
          [] r = "<collections.Counter>" -> "collections.Counter"
          [] r = "<collections.OrderedDict>" -> "collections.OrderedDict"]

SupportedTypes == {ReprToType[r] : r \in DOMAIN ReprToType}

\* TableColumn._type_to_repr: the inverse dict.
TypeToRepr == [ty \in SupportedTypes |-> CHOOSE r \in DOMAIN ReprToType : ReprToType[r] = ty]

\* isinstance(data, data_type) for the classes of the model (bool is a subclass of int).
IsInstance(data, data_type) ==
    \/ data.t = data_type
    \/ data.t = "bool" /\ data_type = "int"

----------------------------------------------------------------------------
\* Insertion-ordered dict (primary_hash): a sequence of [k, row] entries.

EmptyDict == [x \in {} |-> {}]

DictKeys(d) == {d[i].k : i \in DOMAIN d}
DictGet(d, k) == d[CHOOSE i \in DOMAIN d : d[i].k = k].row
DictSet(d, k, row) ==
    IF k \in DictKeys(d)
    THEN [i \in DOMAIN d |-> IF d[i].k = k THEN [k |-> k, row |-> row] ELSE d[i]]
    ELSE Append(d, [k |-> k, row |-> row])
DictPop(d, k) == SelectSeq(d, LAMBDA e : e.k # k)
DictValues(d) == [i \in DOMAIN d |-> d[i].row]

\* list.remove(x): drops the first occurrence.
ListRemove(s, x) ==
    LET i == CHOOSE j \in DOMAIN s : s[j] = x /\ \A h \in 1..(j - 1) : s[h] # x
    IN [j \in 1..(Len(s) - 1) |-> IF j < i THEN s[j] ELSE s[j + 1]]

SeqToSet(s) == {s[i] : i \in DOMAIN s}

----------------------------------------------------------------------------
\* TableColumn

\* Whether is_data_valid reads self._unique_data for this value (lines 109-116).
ReadsUniqueData(column, data) ==
    column.is_unique /\ (~column.is_nullable \/ data # PyNone)

\* Lines 102-107 of is_data_valid: the type check and the null check.
TypeAndNullCheck(column, data) ==
    IF data # PyNone /\ column.data_type = "None" THEN "TypeError"
    ELSE IF data # PyNone /\ ~IsInstance(data, column.data_type) THEN "InvalidTypeError"
    ELSE IF data = PyNone /\ ~column.is_nullable THEN "NullValueError"
    ELSE OK

\* TableColumn.is_data_valid with _unique_data = uniq: OK, or the error it returns
\* (raises, for the unhashable value).
is_data_valid(column, uniq, data) ==
    LET e == TypeAndNullCheck(column, data)
    IN IF e # OK THEN e
       ELSE IF ReadsUniqueData(column, data)
            THEN IF ~Hashable(data) THEN "TypeError"
                 ELSE IF data \in uniq THEN "DuplicateValueError" ELSE OK
            ELSE OK

\* TableColumn.__init__ without lines 67-69: the flags of a primary column are taken
\* as the caller gave them.
TableColumnInitAsGiven(a) ==
    LET col == [name |-> a.name, data_type |-> a.data_type,
                has_default |-> a.has_default,
                default_data |-> IF a.has_default THEN a.default_data ELSE PyNone,
                is_nullable |-> a.is_nullable,
                is_primary_key |-> a.is_primary_key,
                is_unique |-> a.is_unique,
                is_indexed |-> a.is_indexed]
        e == TypeAndNullCheck(col, a.default_data)
    \* the message of NonSupportedType joins the keys of _type_to_repr, which are
    \* types and not strings: str.join raises TypeError before the raise (lines 75-77)
    IN IF a.data_type \notin SupportedTypes THEN [err |-> "TypeError", col |-> col]
       ELSE IF ~a.has_default THEN [err |-> OK, col |-> col]
       ELSE IF e # OK THEN [err |-> e, col |-> col]
       ELSE IF ReadsUniqueData(col, a.default_data) THEN [err |-> "AttributeError", col |-> col]
       ELSE [err |-> OK, col |-> col]

\* TableColumn.__init__ on its arguments: [err, col].
TableColumnInit(a) ==
    LET pk == a.is_primary_key
        col == [name |-> a.name, data_type |-> a.data_type,
                has_default |-> a.has_default,
                default_data |-> IF a.has_default THEN a.default_data ELSE PyNone,
                is_nullable |-> IF pk THEN FALSE ELSE a.is_nullable,
                is_primary_key |-> pk,
                is_unique |-> IF pk THEN TRUE ELSE a.is_unique,
                is_indexed |-> IF pk THEN TRUE ELSE a.is_indexed]
        e == TypeAndNullCheck(col, a.default_data)
    \* the message of NonSupportedType joins the keys of _type_to_repr, which are
    \* types and not strings: str.join raises TypeError before the raise (lines 75-77)
    IN IF a.data_type \notin SupportedTypes THEN [err |-> "TypeError", col |-> col]
       ELSE IF ~a.has_default THEN [err |-> OK, col |-> col]
       ELSE IF e # OK THEN [err |-> e, col |-> col]
       \* _unique_data is assigned after the default is validated (line 91)
       ELSE IF ReadsUniqueData(col, a.default_data) THEN [err |-> "AttributeError", col |-> col]
       ELSE [err |-> OK, col |-> col]

\* TableColumn.add_to_column: the new _unique_data.
add_to_column(column, uniq, data) ==
    IF column.is_unique THEN uniq \cup {data} ELSE uniq

\* TableColumn.remove_from_column: [err, uniq].
remove_from_column(column, uniq, data) ==
    IF column.is_unique
    THEN IF data \in uniq THEN [err |-> OK, uniq |-> uniq \ {data}]
         ELSE [err |-> "MissingDataError", uniq |-> uniq]
    ELSE [err |-> OK, uniq |-> uniq]

----------------------------------------------------------------------------
\* Table: the operations as functions of a table record
\*   t = [columns, unique_data, primary_column, primary_hash, index_hash, row_order]
\* returning [err, t]: how the call ended and the table it left behind.

ColumnNames(cols) == {cols[i].name : i \in DOMAIN cols}

\* column._unique_data of the column at position i (read by unique columns only).
UniqueOf(t, i) == IF i \in DOMAIN t.unique_data THEN t.unique_data[i] ELSE {}

SetUnique(ud, i, uniq) == IF i \in DOMAIN ud THEN [ud EXCEPT ![i] = uniq] ELSE ud

\* The first column marked primary (the for/break of Table.__init__), 0 if none.
FirstPrimary(cols) ==
    IF \E i \in DOMAIN cols : cols[i].is_primary_key
    THEN CHOOSE i \in DOMAIN cols :
            cols[i].is_primary_key /\ \A j \in 1..(i - 1) : ~cols[j].is_primary_key
    ELSE 0

\* Table.__init__ building an index for every non-primary column.
TableInitIndexAll(cols, ud) ==
    LET p == FirstPrimary(cols)
        t == [columns |-> cols, unique_data |-> ud, primary_column |-> p,
              primary_hash |-> <<>>,
              index_hash |-> [n \in {cols[i].name : i \in {j \in DOMAIN cols :
                                        ~cols[j].is_primary_key}} |-> EmptyDict],
              row_order |-> <<>>]
    IN IF p = 0 THEN [err |-> "ValueError", t |-> t] ELSE [err |-> OK, t |-> t]

\* Table.__init__(columns) on column objects whose _unique_data are ud.
TableInit(cols, ud) ==
    LET p == FirstPrimary(cols)
        cols1 == IF p = 0 THEN cols
                 ELSE [cols EXCEPT ![p].is_nullable = FALSE, ![p].is_unique = TRUE,
                                   ![p].is_indexed = TRUE]
        t == [columns |-> cols1, unique_data |-> ud, primary_column |-> p,
              primary_hash |-> <<>>,
              index_hash |-> [n \in {cols1[i].name : i \in {j \in DOMAIN cols1 :
                                        cols1[j].is_indexed /\ ~cols1[j].is_primary_key}}
                                |-> EmptyDict],
              row_order |-> <<>>]
    IN IF p = 0 THEN [err |-> "ValueError", t |-> t] ELSE [err |-> OK, t |-> t]

\* The bucket of value replaced by {key}, whatever it held.
BucketSet(column_hash, value, primary_key) ==
    (value :> {primary_key}) @@ column_hash

\* dict[value].add(key), creating the bucket (lines 330-333, 308-311).
BucketAdd(column_hash, value, primary_key) ==
    IF value \in DOMAIN column_hash
    THEN [column_hash EXCEPT ![value] = @ \cup {primary_key}]
    ELSE (value :> {primary_key}) @@ column_hash

DictDel(column_hash, value) == [v \in (DOMAIN column_hash) \ {value} |-> column_hash[v]]

\* The names of index_hash in the order of self.index_hash.items(): the order of
\* the columns they were built from.
IndexOrder(t) ==
    SelectSeq([i \in DOMAIN t.columns |-> t.columns[i].name],
              LAMBDA n : n \in DOMAIN t.index_hash)

\* The loop of update_row_hash (lines 327-333) from the j-th index on, then line 334.
\* "value in column_hash" raises TypeError for an unhashable value.
RECURSIVE UpdateRowHashFrom(_, _, _)
UpdateRowHashFrom(t, row_dict, j) ==
    LET pname == t.columns[t.primary_column].name
        primary_key == row_dict[pname]
        names == IndexOrder(t)
    \* row_dict[...] of a name the caller's row lacks (lines 326, 329)
    IN IF pname \notin DOMAIN row_dict THEN [err |-> "KeyError", t |-> t]
       ELSE IF j > Len(names)
       THEN [err |-> OK,
             t |-> [t EXCEPT !.primary_hash = DictSet(@, primary_key, row_dict)]]
       ELSE IF names[j] = pname THEN UpdateRowHashFrom(t, row_dict, j + 1)
       ELSE IF names[j] \notin DOMAIN row_dict THEN [err |-> "KeyError", t |-> t]
       ELSE IF ~Hashable(row_dict[names[j]]) THEN [err |-> "TypeError", t |-> t]
       ELSE UpdateRowHashFrom(
                [t EXCEPT !.index_hash[names[j]] =
                              BucketAdd(@, row_dict[names[j]], primary_key)],
                row_dict, j + 1)

\* Table.update_row_hash: [err, t].
update_row_hash(t, row_dict) == UpdateRowHashFrom(t, row_dict, 1)

\* The loop of update_full_hash over primary_hash.values() from the h-th row on.
\* update_row_hash stores each row under the key it already has, so the dict keeps
\* its size and its order while it is iterated.
RECURSIVE UpdateFullHashFrom(_, _, _)
UpdateFullHashFrom(t, rows, h) ==
    IF h > Len(rows) THEN [err |-> OK, t |-> t]
    ELSE LET r == update_row_hash(t, rows[h])
         IN IF r.err # OK THEN r ELSE UpdateFullHashFrom(r.t, rows, h + 1)

\* Table.update_full_hash: [err, t].
update_full_hash(t) == UpdateFullHashFrom(t, DictValues(t.primary_hash), 1)

\* The first loop of add_row reading a missing column as None (row_dict.get) when
\* no default is asked for, instead of raising.
RECURSIVE ValidateRowGet(_, _, _, _)
ValidateRowGet(t, take_default, row_dict, i) ==
    IF i > Len(t.columns) THEN [err |-> OK, row |-> row_dict]
    ELSE LET column == t.columns[i]
             missing == column.name \notin DOMAIN row_dict
         IN IF missing /\ take_default /\ ~column.has_default
            THEN [err |-> "ValueError", row |-> row_dict]
            ELSE LET filled == IF missing
                               THEN (column.name :> (IF take_default THEN column.default_data
                                                     ELSE PyNone)) @@ row_dict
                               ELSE row_dict
                     e == is_data_valid(column, UniqueOf(t, i), filled[column.name])
                 IN IF e # OK THEN [err |-> e, row |-> filled]
                    ELSE ValidateRowGet(t, take_default, filled, i + 1)

\* The first loop of add_row taking None for an omitted column that has no default,
\* where the default_data accessor raises.
RECURSIVE ValidateRowNullDefault(_, _, _, _)
ValidateRowNullDefault(t, take_default, row_dict, i) ==
    IF i > Len(t.columns) THEN [err |-> OK, row |-> row_dict]
    ELSE LET column == t.columns[i]
             missing == column.name \notin DOMAIN row_dict
         IN IF missing /\ ~take_default
            THEN [err |-> "MissingDataError", row |-> row_dict]
            ELSE LET filled == IF missing
                               THEN (column.name :> (IF column.has_default
                                                     THEN column.default_data
                                                     ELSE PyNone)) @@ row_dict
                               ELSE row_dict
                     e == is_data_valid(column, UniqueOf(t, i), filled[column.name])
                 IN IF e # OK THEN [err |-> e, row |-> filled]
                    ELSE ValidateRowNullDefault(t, take_default, filled, i + 1)

\* The first loop of add_row (lines 246-254) from column i on: [err, row],
\* row being row_dict with the defaults taken so far.
RECURSIVE ValidateRow(_, _, _, _)
ValidateRow(t, take_default, row_dict, i) ==
    IF i > Len(t.columns) THEN [err |-> OK, row |-> row_dict]
    ELSE LET column == t.columns[i]
             missing == column.name \notin DOMAIN row_dict
         IN IF missing /\ take_default /\ ~column.has_default
            THEN [err |-> "ValueError", row |-> row_dict]
            ELSE IF missing /\ ~take_default
            THEN [err |-> "MissingDataError", row |-> row_dict]
            ELSE LET filled == IF missing
                               THEN (column.name :> column.default_data) @@ row_dict
                               ELSE row_dict
                     e == is_data_valid(column, UniqueOf(t, i), filled[column.name])
                 IN IF e # OK THEN [err |-> e, row |-> filled]
                    ELSE ValidateRow(t, take_default, filled, i + 1)

\* add_row committing each column as soon as it is validated (one loop, not two).
RECURSIVE AddRowEagerFrom(_, _, _, _)
AddRowEagerFrom(t, take_default, row_dict, i) ==
    IF i > Len(t.columns)
    THEN update_row_hash(
             [t EXCEPT !.row_order =
                           Append(@, row_dict[t.columns[t.primary_column].name])],
             row_dict)
    ELSE LET column == t.columns[i]
             missing == column.name \notin DOMAIN row_dict
         IN IF missing /\ take_default /\ ~column.has_default
            THEN [err |-> "ValueError", t |-> t]
            ELSE IF missing /\ ~take_default
            THEN [err |-> "MissingDataError", t |-> t]
            ELSE LET filled == IF missing
                               THEN (column.name :> column.default_data) @@ row_dict
                               ELSE row_dict
                     e == is_data_valid(column, UniqueOf(t, i), filled[column.name])
                 IN IF e # OK THEN [err |-> e, t |-> t]
                    ELSE AddRowEagerFrom(
                             [t EXCEPT !.unique_data =
                                 SetUnique(@, i, add_to_column(column, UniqueOf(t, i),
                                                               filled[column.name]))],
                             take_default, filled, i + 1)

add_row_eager(t, take_default, row_dict) == AddRowEagerFrom(t, take_default, row_dict, 1)

\* Table.add_row.
add_row(t, take_default, row_dict) ==
    LET v == ValidateRow(t, take_default, row_dict, 1)
        row == v.row
        pname == t.columns[t.primary_column].name
        t1 == [t EXCEPT
                 !.unique_data = [i \in DOMAIN t.unique_data |->
                                    add_to_column(t.columns[i], t.unique_data[i],
                                                  row[t.columns[i].name])],
                 !.row_order = Append(t.row_order, row[pname])]
    IN IF v.err # OK THEN [err |-> v.err, t |-> t]
       ELSE update_row_hash(t1, row)

\* The loop of delete_row (lines 270-276) from column i on.
RECURSIVE DeleteRowColumns(_, _, _, _)
DeleteRowColumns(t, primary_key, row_dict, i) ==
    IF i > Len(t.columns) THEN [err |-> OK, t |-> t]
    ELSE LET column == t.columns[i]
             value == row_dict[column.name]
             r == remove_from_column(column, UniqueOf(t, i), value)
             t1 == [t EXCEPT !.unique_data = SetUnique(t.unique_data, i, r.uniq)]
         IN IF r.err # OK THEN [err |-> r.err, t |-> t]
            ELSE IF column.is_indexed /\ i # t.primary_column
            THEN IF \/ column.name \notin DOMAIN t1.index_hash
                    \/ value \notin DOMAIN t1.index_hash[column.name]
                    \/ primary_key \notin t1.index_hash[column.name][value]
                 THEN [err |-> "KeyError", t |-> t1]
                 ELSE LET bucket == t1.index_hash[column.name][value] \ {primary_key}
                          column_hash ==
                              IF Cardinality(bucket) < 1
                              THEN DictDel(t1.index_hash[column.name], value)
                              ELSE [t1.index_hash[column.name] EXCEPT ![value] = bucket]
                      IN DeleteRowColumns(
                             [t1 EXCEPT !.index_hash[column.name] = column_hash],
                             primary_key, row_dict, i + 1)
            ELSE DeleteRowColumns(t1, primary_key, row_dict, i + 1)

\* delete_row passing over a key that is not stored (pop with a default, no raise).
delete_row_quiet(t, primary_key) ==
    IF primary_key \in DictKeys(t.primary_hash)
    THEN LET row_dict == DictGet(t.primary_hash, primary_key)
             r == DeleteRowColumns([t EXCEPT !.primary_hash = DictPop(@, primary_key)],
                                   primary_key, row_dict, 1)
         IN IF r.err # OK THEN r
            ELSE IF primary_key \notin SeqToSet(r.t.row_order)
            THEN [err |-> "ValueError", t |-> r.t]
            ELSE [err |-> OK,
                  t |-> [r.t EXCEPT !.row_order = ListRemove(@, primary_key)]]
    ELSE [err |-> OK, t |-> t]

\* Table.delete_row.
delete_row(t, primary_key) ==
    IF primary_key \in DictKeys(t.primary_hash)
    THEN LET row_dict == DictGet(t.primary_hash, primary_key)
             r == DeleteRowColumns([t EXCEPT !.primary_hash = DictPop(@, primary_key)],
                                   primary_key, row_dict, 1)
         IN IF r.err # OK THEN r
            ELSE IF primary_key \notin SeqToSet(r.t.row_order)
            THEN [err |-> "ValueError", t |-> r.t]
            ELSE [err |-> OK,
                  t |-> [r.t EXCEPT !.row_order = ListRemove(@, primary_key)]]
    ELSE [err |-> "MissingDataError", t |-> t]

\* The second loop of update_row redoing the bookkeeping of every indexed column but
\* the primary one, whether its value changed or not.
RECURSIVE UpdateRowColumnsAll(_, _, _, _, _)
UpdateRowColumnsAll(t, primary_key, old_row, new_row, i) ==
    IF i > Len(t.columns) THEN [err |-> OK, t |-> t]
    ELSE LET column == t.columns[i]
             old_value == old_row[column.name]
             new_value == new_row[column.name]
         IN IF column.is_indexed /\ i # t.primary_column
            THEN LET r == remove_from_column(column, UniqueOf(t, i), old_value)
                     t1 == [t EXCEPT !.unique_data =
                               SetUnique(t.unique_data, i,
                                         add_to_column(column, r.uniq, new_value))]
                 IN IF r.err # OK THEN [err |-> r.err, t |-> t]
                    ELSE IF column.name \notin DOMAIN t1.index_hash
                    THEN [err |-> "KeyError", t |-> t1]
                    ELSE LET h1 == BucketAdd(t1.index_hash[column.name], new_value,
                                             primary_key)
                             t2 == [t1 EXCEPT !.index_hash[column.name] = h1]
                         IN IF old_value \notin DOMAIN h1
                            THEN [err |-> "KeyError", t |-> t2]
                            ELSE IF Cardinality(h1[old_value]) = 1
                            THEN UpdateRowColumnsAll(
                                     [t2 EXCEPT !.index_hash[column.name] =
                                                    DictDel(h1, old_value)],
                                     primary_key, old_row, new_row, i + 1)
                            ELSE IF primary_key \notin h1[old_value]
                            THEN [err |-> "KeyError", t |-> t2]
                            ELSE UpdateRowColumnsAll(
                                     [t2 EXCEPT !.index_hash[column.name][old_value] =
                                                    @ \ {primary_key}],
                                     primary_key, old_row, new_row, i + 1)
            ELSE UpdateRowColumnsAll(t, primary_key, old_row, new_row, i + 1)

\* The second loop of update_row (lines 301-316) from column i on.
RECURSIVE UpdateRowColumns(_, _, _, _, _)
UpdateRowColumns(t, primary_key, old_row, new_row, i) ==
    IF i > Len(t.columns) THEN [err |-> OK, t |-> t]
    ELSE LET column == t.columns[i]
             old_value == old_row[column.name]
             new_value == new_row[column.name]
         IN IF column.is_indexed /\ old_value # new_value
            THEN LET r == remove_from_column(column, UniqueOf(t, i), old_value)
                     t1 == [t EXCEPT !.unique_data =
                               SetUnique(t.unique_data, i,
                                         add_to_column(column, r.uniq, new_value))]
                 IN IF r.err # OK THEN [err |-> r.err, t |-> t]
                    \* set.add of an unhashable value (line 307), after the release
                    ELSE IF column.is_unique /\ ~Hashable(new_value)
                    THEN [err |-> "TypeError",
                          t |-> [t EXCEPT !.unique_data = SetUnique(@, i, r.uniq)]]
                    ELSE IF column.name \notin DOMAIN t1.index_hash
                    THEN [err |-> "KeyError", t |-> t1]
                    \* "new_value in dict" of an unhashable value (line 308)
                    ELSE IF ~Hashable(new_value) THEN [err |-> "TypeError", t |-> t1]
                    ELSE LET h1 == BucketAdd(t1.index_hash[column.name], new_value,
                                             primary_key)
                             t2 == [t1 EXCEPT !.index_hash[column.name] = h1]
                         IN IF old_value \notin DOMAIN h1
                            THEN [err |-> "KeyError", t |-> t2]
                            ELSE IF Cardinality(h1[old_value]) = 1
                            THEN UpdateRowColumns(
                                     [t2 EXCEPT !.index_hash[column.name] =
                                                    DictDel(h1, old_value)],
                                     primary_key, old_row, new_row, i + 1)
                            ELSE IF primary_key \notin h1[old_value]
                            THEN [err |-> "KeyError", t |-> t2]
                            ELSE UpdateRowColumns(
                                     [t2 EXCEPT !.index_hash[column.name][old_value] =
                                                    @ \ {primary_key}],
                                     primary_key, old_row, new_row, i + 1)
            ELSE UpdateRowColumns(t, primary_key, old_row, new_row, i + 1)

\* update_row replacing the row: a column the keyword arguments do not name is set
\* to None instead of keeping its old value.
update_row_replace(t, primary_key, kwargs) ==
    LET pname == t.columns[t.primary_column].name
        row_dict == (pname :> primary_key) @@ kwargs
    IN IF primary_key \notin DictKeys(t.primary_hash)
       THEN [err |-> "MissingDataError", t |-> t]
       ELSE LET old_row == DictGet(t.primary_hash, primary_key)
                new_row == [n \in ColumnNames(t.columns) |->
                              IF n \in DOMAIN row_dict THEN row_dict[n] ELSE PyNone]
                r == UpdateRowColumns(t, primary_key, old_row, new_row, 1)
            IN IF r.err # OK THEN r
               ELSE [err |-> OK,
                     t |-> [r.t EXCEPT !.primary_hash = DictSet(@, primary_key, new_row)]]

\* Table.update_row.
update_row(t, primary_key, kwargs) ==
    LET pname == t.columns[t.primary_column].name
        row_dict == (pname :> primary_key) @@ kwargs
    IN IF primary_key \notin DictKeys(t.primary_hash)
       THEN [err |-> "MissingDataError", t |-> t]
       ELSE LET old_row == DictGet(t.primary_hash, primary_key)
                new_row == [n \in ColumnNames(t.columns) |->
                              IF n \in DOMAIN row_dict THEN row_dict[n] ELSE old_row[n]]
                r == UpdateRowColumns(t, primary_key, old_row, new_row, 1)
            IN IF r.err # OK THEN r
               ELSE [err |-> OK,
                     t |-> [r.t EXCEPT !.primary_hash = DictSet(@, primary_key, new_row)]]

\* The sort key of row_order[i]: key(self.primary_hash[k]) with key = lambda row: row[c].
SortKeys(t, c) == [i \in DOMAIN t.row_order |-> DictGet(t.primary_hash, t.row_order[i])[c]]

\* Whether Python orders a and b with <: ints with ints, tuples with tuples, lists with lists;
\* None < None and comparisons across these types raise TypeError.
Orderable(a, b) == a.t = b.t /\ a.t \in {"int", "tuple", "list"}

\* sort_rows sorting in ascending order and reversing the result for reverse=True
\* (sorted(...)[::-1]), which turns the rows of equal key around.
sort_rows_flipped(t, c, reverse) ==
    IF \E i \in DOMAIN t.row_order : t.row_order[i] \notin DictKeys(t.primary_hash)
    THEN [err |-> "KeyError", t |-> t]
    ELSE LET ks == SortKeys(t, c)
             n == Len(t.row_order)
             up(i) == 1 + Cardinality({j \in 1..n : ks[j].v < ks[i].v})
                        + Cardinality({j \in 1..(i - 1) : ks[j].v = ks[i].v})
             place(i) == IF reverse THEN n + 1 - up(i) ELSE up(i)
         IN IF n >= 2 /\ \E i, j \in 1..n : ~Orderable(ks[i], ks[j])
            THEN [err |-> "TypeError", t |-> t]
            ELSE [err |-> OK,
                  t |-> [t EXCEPT !.row_order =
                            [q \in 1..n |-> t.row_order[CHOOSE i \in 1..n : place(i) = q]]]]

\* Table.sort_rows with key = lambda row: row[c]. sorted() is stable, also with
\* reverse=True, which fixes the place of every element.
sort_rows(t, c, reverse) ==
    IF \E i \in DOMAIN t.row_order : t.row_order[i] \notin DictKeys(t.primary_hash)
    THEN [err |-> "KeyError", t |-> t]
    ELSE LET ks == SortKeys(t, c)
             n == Len(t.row_order)
             before(j, i) == IF reverse THEN ks[j].v > ks[i].v ELSE ks[j].v < ks[i].v
             place(i) == 1 + Cardinality({j \in 1..n : before(j, i)})
                           + Cardinality({j \in 1..(i - 1) : ks[j].v = ks[i].v})
         IN IF n >= 2 /\ \E i, j \in 1..n : ~Orderable(ks[i], ks[j])
            THEN [err |-> "TypeError", t |-> t]
            ELSE [err |-> OK,
                  t |-> [t EXCEPT !.row_order =
                            [q \in 1..n |-> t.row_order[CHOOSE i \in 1..n : place(i) = q]]]]

----------------------------------------------------------------------------
\* JSON snapshot

\* json.load(json.dump(v)): a tuple comes back as a list; int, None and list as themselves.
JsonValue(v) == IF v.t = "tuple" THEN PyList(v.v) ELSE v

\* TableColumn.as_dict.
as_dict(column) ==
    LET ret_dict == [name |-> column.name, data_type |-> TypeToRepr[column.data_type],
                     is_nullable |-> column.is_nullable,
                     is_primary_key |-> column.is_primary_key,
                     is_unique |-> column.is_unique, is_indexed |-> column.is_indexed,
                     has_default |-> column.has_default]
    IN IF column.has_default
       THEN ("default_data" :> column.default_data) @@ ret_dict
       ELSE ret_dict

\* Table.save_table_as_json: the content of the file, as json.load reads it back.
save_table_as_json(t) ==
    [columns |-> [i \in DOMAIN t.columns |->
                    LET d == as_dict(t.columns[i])
                    IN [f \in DOMAIN d |-> IF f = "default_data" THEN JsonValue(d[f])
                                           ELSE d[f]]],
     rows |-> [i \in DOMAIN t.primary_hash |->
                    LET row == DictValues(t.primary_hash)[i]
                    IN [n \in DOMAIN row |-> JsonValue(row[n])]],
     row_order |-> [i \in DOMAIN t.row_order |-> JsonValue(t.row_order[i])]]

\* TableColumn.from_dict: [err, col].
from_dict(column_data) ==
    IF column_data.data_type \notin DOMAIN ReprToType
    THEN [err |-> "KeyError", col |-> column_data]
    ELSE TableColumnInit(
             [name |-> column_data.name,
              data_type |-> ReprToType[column_data.data_type],
              has_default |-> column_data.has_default,
              default_data |-> IF "default_data" \in DOMAIN column_data
                               THEN column_data.default_data ELSE PyNone,
              is_nullable |-> column_data.is_nullable,
              is_primary_key |-> column_data.is_primary_key,
              is_unique |-> column_data.is_unique,
              is_indexed |-> column_data.is_indexed])

\* The loop "for row in rows: table.add_row(**row)" from row i on.
RECURSIVE LoadRows(_, _, _)
LoadRows(t, rows, i) ==
    IF i > Len(rows) THEN [err |-> OK, t |-> t]
    ELSE LET r == add_row(t, FALSE, rows[i])
         IN IF r.err # OK THEN r ELSE LoadRows(r.t, rows, i + 1)

\* load_table_from_json without line 376: the row order is the one the add_row calls
\* built, not the recorded one.
load_table_rebuilt_order(data) ==
    LET cs == [i \in DOMAIN data.columns |-> from_dict(data.columns[i])]
        bad == {i \in DOMAIN cs : cs[i].err # OK}
        cols == [i \in DOMAIN cs |-> cs[i].col]
        init == TableInit(cols, [i \in {j \in DOMAIN cols : cols[j].is_unique} |-> {}])
        r == LoadRows(init.t, data.rows, 1)
    IN IF bad # {}
       THEN [err |-> cs[CHOOSE i \in bad : \A j \in bad : i <= j].err, t |-> init.t]
       ELSE IF init.err # OK THEN init
       ELSE r

\* Table.load_table_from_json on the content of the file: [err, t].
load_table_from_json(data) ==
    LET cs == [i \in DOMAIN data.columns |-> from_dict(data.columns[i])]
        bad == {i \in DOMAIN cs : cs[i].err # OK}
        cols == [i \in DOMAIN cs |-> cs[i].col]
        init == TableInit(cols, [i \in {j \in DOMAIN cols : cols[j].is_unique} |-> {}])
        r == LoadRows(init.t, data.rows, 1)
    IN IF bad # {}
       THEN [err |-> cs[CHOOSE i \in bad : \A j \in bad : i <= j].err, t |-> init.t]
       ELSE IF init.err # OK THEN init
       ELSE IF r.err # OK THEN r
       ELSE [err |-> OK, t |-> [r.t EXCEPT !.row_order = data.row_order]]

----------------------------------------------------------------------------
\* Filtering

\* TableColumn.clone: a new column object built from this one's fields: [err, col].
clone(column) ==
    TableColumnInit(
        [name |-> column.name, data_type |-> column.data_type,
         has_default |-> column.has_default,
         default_data |-> IF column.has_default THEN column.default_data ELSE PyNone,
         is_nullable |-> column.is_nullable, is_primary_key |-> column.is_primary_key,
         is_unique |-> column.is_unique, is_indexed |-> column.is_indexed])

\* The conditions of the model: lambda row: True (c = "*") and lambda row: row[c] == v.
Condition(condition, row) == condition.c = "*" \/ row[condition.c] = condition.v

\* The loop "for row in filtered_rows: ret_table.add_row(**row)" from row i on.
RECURSIVE FilterAddRows(_, _, _)
FilterAddRows(ret_table, filtered_rows, i) ==
    IF i > Len(filtered_rows) THEN [err |-> OK, t |-> ret_table]
    ELSE LET r == add_row(ret_table, FALSE, filtered_rows[i])
         IN IF r.err # OK THEN r ELSE FilterAddRows(r.t, filtered_rows, i + 1)

\* filter_rows keeping the filtered keys as the table's own row order
\* (self.row_order = [...] for filtered_keys = [...]).
filter_rows_inplace(t, condition, output_format) ==
    IF \E i \in DOMAIN t.row_order : t.row_order[i] \notin DictKeys(t.primary_hash)
    THEN [err |-> "KeyError", t |-> t, ret |-> PyNone]
    ELSE LET filtered_keys == SelectSeq(t.row_order,
                                  LAMBDA key : Condition(condition, DictGet(t.primary_hash, key)))
             filtered_rows == [i \in DOMAIN filtered_keys |->
                                  DictGet(t.primary_hash, filtered_keys[i])]
             t1 == [t EXCEPT !.row_order = filtered_keys]
         IN IF output_format = "ListFormat"
            THEN [err |-> OK, t |-> t1, ret |-> filtered_rows]
            ELSE LET cs == [i \in DOMAIN t.columns |-> clone(t.columns[i])]
                     bad == {i \in DOMAIN cs : cs[i].err # OK}
                     cols == [i \in DOMAIN cs |-> cs[i].col]
                     init == TableInit(cols, [i \in {j \in DOMAIN cols : cols[j].is_unique}
                                                |-> {}])
                     r == FilterAddRows(init.t, filtered_rows, 1)
                 IN IF bad # {}
                    THEN [err |-> cs[CHOOSE i \in bad : \A j \in bad : i <= j].err,
                          t |-> t1, ret |-> PyNone]
                    ELSE IF init.err # OK THEN [err |-> init.err, t |-> t1, ret |-> PyNone]
                    ELSE IF r.err # OK THEN [err |-> r.err, t |-> t1, ret |-> PyNone]
                    ELSE [err |-> OK, t |-> t1, ret |-> r.t]

\* filter_rows walking the primary store (for key in self.primary_hash) instead of
\* row_order.
filter_rows_stored(t, condition, output_format) ==
    IF \E i \in DOMAIN t.row_order : t.row_order[i] \notin DictKeys(t.primary_hash)
    THEN [err |-> "KeyError", t |-> t, ret |-> PyNone]
    ELSE LET filtered_keys == SelectSeq([i \in DOMAIN t.primary_hash |-> t.primary_hash[i].k],
                                  LAMBDA key : Condition(condition, DictGet(t.primary_hash, key)))
             filtered_rows == [i \in DOMAIN filtered_keys |->
                                  DictGet(t.primary_hash, filtered_keys[i])]
         IN IF output_format = "ListFormat"
            THEN [err |-> OK, t |-> t, ret |-> filtered_rows]
            ELSE LET cs == [i \in DOMAIN t.columns |-> clone(t.columns[i])]
                     bad == {i \in DOMAIN cs : cs[i].err # OK}
                     cols == [i \in DOMAIN cs |-> cs[i].col]
                     init == TableInit(cols, [i \in {j \in DOMAIN cols : cols[j].is_unique}
                                                |-> {}])
                     r == FilterAddRows(init.t, filtered_rows, 1)
                 IN IF bad # {}
                    THEN [err |-> cs[CHOOSE i \in bad : \A j \in bad : i <= j].err,
                          t |-> t, ret |-> PyNone]
                    ELSE IF init.err # OK THEN [err |-> init.err, t |-> t, ret |-> PyNone]
                    ELSE IF r.err # OK THEN [err |-> r.err, t |-> t, ret |-> PyNone]
                    ELSE [err |-> OK, t |-> t, ret |-> r.t]

\* Table.filter_rows: [err, t, ret], t the table the call leaves behind and ret what
\* it returns (a list of rows or a table). The call reads self.row_order and
\* self.primary_hash (a key of row_order that is not stored raises KeyError); the
\* columns of ret_table are clones with sets of their own, and **row copies each row,
\* so no statement writes to the table or to an object it holds.
filter_rows(t, condition, output_format) ==
    IF \E i \in DOMAIN t.row_order : t.row_order[i] \notin DictKeys(t.primary_hash)
    THEN [err |-> "KeyError", t |-> t, ret |-> PyNone]
    ELSE LET filtered_keys == SelectSeq(t.row_order,
                                  LAMBDA key : Condition(condition, DictGet(t.primary_hash, key)))
             filtered_rows == [i \in DOMAIN filtered_keys |->
                                  DictGet(t.primary_hash, filtered_keys[i])]
         IN IF output_format = "ListFormat"
            THEN [err |-> OK, t |-> t, ret |-> filtered_rows]
            ELSE LET cs == [i \in DOMAIN t.columns |-> clone(t.columns[i])]
                     bad == {i \in DOMAIN cs : cs[i].err # OK}
                     cols == [i \in DOMAIN cs |-> cs[i].col]
                     init == TableInit(cols, [i \in {j \in DOMAIN cols : cols[j].is_unique}
                                                |-> {}])
                     r == FilterAddRows(init.t, filtered_rows, 1)
                 IN IF bad # {}
                    THEN [err |-> cs[CHOOSE i \in bad : \A j \in bad : i <= j].err,
                          t |-> t, ret |-> PyNone]
                    ELSE IF init.err # OK THEN [err |-> init.err, t |-> t, ret |-> PyNone]
                    ELSE IF r.err # OK THEN [err |-> r.err, t |-> t, ret |-> PyNone]
                    ELSE [err |-> OK, t |-> t, ret |-> r.t]

----------------------------------------------------------------------------
\* The program: column lists, then calls on the table built from one of them.

Column(name, data_type, has_default, default_data, is_nullable, is_primary_key, is_unique, is_indexed) ==
    [name |-> name, data_type |-> data_type, has_default |-> has_default,
     default_data |-> default_data, is_nullable |-> is_nullable,
     is_primary_key |-> is_primary_key, is_unique |-> is_unique,
     is_indexed |-> is_indexed]

\* The column lists a caller builds (arguments of TableColumn(...)).
\* An indexed column and a nullable unique indexed column.
ColumnsIndexed ==
    << Column("id", "int", FALSE, PyNone, FALSE, TRUE, FALSE, FALSE),
       Column("a", "int", FALSE, PyNone, FALSE, FALSE, FALSE, TRUE),
       Column("u", "int", FALSE, PyNone, TRUE, FALSE, TRUE, TRUE) >>
\* A unique column that is not indexed.
ColumnsUnique ==
    << Column("id", "int", FALSE, PyNone, FALSE, TRUE, TRUE, TRUE),
       Column("u", "int", FALSE, PyNone, FALSE, FALSE, TRUE, FALSE) >>
\* Two columns marked primary.
ColumnsTwoPrimary ==
    << Column("id", "int", FALSE, PyNone, FALSE, TRUE, TRUE, TRUE),
       Column("id2", "int", FALSE, PyNone, FALSE, TRUE, TRUE, TRUE) >>
\* No column marked primary.
ColumnsNoPrimary ==
    << Column("a", "int", FALSE, PyNone, FALSE, FALSE, FALSE, TRUE),
       Column("u", "int", FALSE, PyNone, FALSE, FALSE, TRUE, FALSE) >>
\* A tuple column before the primary column.
ColumnsTuple ==
    << Column("t", "tuple", FALSE, PyNone, TRUE, FALSE, FALSE, FALSE),
       Column("id", "int", FALSE, PyNone, TRUE, TRUE, FALSE, FALSE) >>
\* A column with a default.
ColumnsDefault ==
    << Column("id", "int", FALSE, PyNone, FALSE, TRUE, TRUE, TRUE),
       Column("d", "int", TRUE, PyInt(1), FALSE, FALSE, FALSE, TRUE) >>

\* An indexed column of lists (a supported type whose values are unhashable).
ColumnsList ==
    << Column("id", "int", FALSE, PyNone, FALSE, TRUE, TRUE, TRUE),
       Column("l", "list", FALSE, PyNone, FALSE, FALSE, FALSE, TRUE) >>

ColumnLists ==
    {ColumnsIndexed, ColumnsUnique, ColumnsTwoPrimary, ColumnsNoPrimary, ColumnsTuple,
     ColumnsDefault, ColumnsList}

Table == [columns |-> columns, unique_data |-> unique_data,
          primary_column |-> primary_column, primary_hash |-> primary_hash,
          index_hash |-> index_hash, row_order |-> row_order]

\* A call that ended with r = [err, t]. The model follows the program through at
\* most MaxFailures calls that raise.
Ended(op, r) ==
    /\ r.err = OK \/ failures < MaxFailures
    /\ columns' = r.t.columns
    /\ unique_data' = r.t.unique_data
    /\ primary_column' = r.t.primary_column
    /\ primary_hash' = r.t.primary_hash
    /\ index_hash' = r.t.index_hash
    /\ row_order' = r.t.row_order
    /\ file' = file
    /\ outcome' = [op |-> op, err |-> r.err]
    /\ failures' = IF r.err = OK THEN failures ELSE failures + 1

\* The values a caller passes for a column: None, the ints, a tuple, and a list
\* for a column of lists.
InputValues(column) ==
    {PyNone, PyTuple(1)}
        \cup {PyInt(n) : n \in 1..(IF column.is_primary_key THEN MaxKey ELSE MaxVal)}
        \cup (IF column.data_type = "list" THEN {PyList(1)} ELSE {})

\* Keyword arguments: a value for each column of some subset of the columns.
RowInputs ==
    UNION {{f \in [S -> UNION {InputValues(columns[i]) : i \in DOMAIN columns}] :
               \A i \in DOMAIN columns :
                   columns[i].name \in S => f[columns[i].name] \in InputValues(columns[i])} :
           S \in SUBSET ColumnNames(columns)}

KeyInputs == {PyInt(n) : n \in 1..MaxKey}

\* Keyword arguments of update_row: values for columns other than the primary one,
\* or a value for the primary column alone.
UpdateInputs ==
    LET pname == columns[primary_column].name
    IN {f \in RowInputs : pname \notin DOMAIN f \/ DOMAIN f = {pname}}

\* The conditions and output formats a caller passes to filter_rows.
FilterInputs ==
    {[c |-> "*", v |-> PyNone]} \cup {[c |-> n, v |-> PyInt(1)] : n \in ColumnNames(columns)}

OutputFormats == {"TableFormat", "ListFormat"}

Init ==
    /\ \E args \in ColumnLists :
          /\ \A i \in DOMAIN args : TableColumnInit(args[i]).err = OK
          /\ columns = [i \in DOMAIN args |-> TableColumnInit(args[i]).col]
    /\ unique_data = [i \in {j \in DOMAIN columns : columns[j].is_unique} |-> {}]
    /\ primary_column = 0
    /\ primary_hash = <<>>
    /\ index_hash = EmptyDict
    /\ row_order = <<>>
    /\ file = <<>>
    /\ outcome = [op |-> "none", err |-> OK]
    /\ failures = 0

\* Table(columns)
Construct ==
    /\ primary_column = 0
    /\ LET r == TableInit(columns, unique_data)
       IN Ended("Table", IF r.err = OK THEN r ELSE [err |-> r.err, t |-> Table])

\* table.add_row(take_default, **row_dict)
AddRow ==
    /\ primary_column # 0
    /\ Len(row_order) < MaxRows
    /\ \E take_default \in BOOLEAN, row_dict \in RowInputs :
          Ended("add_row", add_row(Table, take_default, row_dict))

\* table.delete_row(primary_key)
DeleteRow ==
    /\ primary_column # 0
    /\ \E primary_key \in KeyInputs : Ended("delete_row", delete_row(Table, primary_key))

\* table.update_row(primary_key, **row_dict)
UpdateRow ==
    /\ primary_column # 0
    /\ \E primary_key \in KeyInputs, row_dict \in UpdateInputs :
          Ended("update_row", update_row(Table, primary_key, row_dict))

\* table.sort_rows(key=lambda row: row[c], reverse=reverse)
SortRows ==
    /\ primary_column # 0
    /\ \E c \in ColumnNames(columns), reverse \in BOOLEAN :
          Ended("sort_rows", sort_rows(Table, c, reverse))

\* table.save_table_as_json(path): the file holds the snapshot of the table; the
\* table is as before.
Save ==
    /\ primary_column # 0
    /\ file' = <<save_table_as_json(Table)>>
    /\ outcome' = [op |-> "save_table_as_json", err |-> OK]
    /\ UNCHANGED <<columns, unique_data, primary_column, primary_hash, index_hash,
                   row_order, failures>>

\* table = Table.load_table_from_json(path): open(path) raises FileNotFoundError
\* when nothing was saved; the table the caller holds from then on is the loaded
\* one; when the load raises, the caller's table is as before.
Load ==
    \E read \in {file} :
        LET r == IF read = <<>> THEN [err |-> "FileNotFoundError", t |-> Table]
                 ELSE load_table_from_json(read[1])
        IN Ended("load_table_from_json",
                 IF r.err = OK THEN r ELSE [err |-> r.err, t |-> Table])

\* table.update_full_hash()
UpdateFullHash ==
    /\ primary_column # 0
    /\ Ended("update_full_hash", update_full_hash(Table))

\* The values a caller passes in direct calls of update_row_hash, add_to_column
\* and remove_from_column: an int, and a list for a column of lists.
DirectValues == {PyInt(1), PyList(1)}

\* The rows a caller passes to update_row_hash: a value for every column, or for
\* every column but some that the call reads (the primary column, columns with an
\* index), so that every row the call stores names every column.
HashRowInputs ==
    {f \in RowInputs :
        /\ ColumnNames(columns) \ DOMAIN f
              \subseteq DOMAIN index_hash \cup {columns[primary_column].name}
        /\ \A n \in DOMAIN f : f[n] \in DirectValues}

\* table.update_row_hash(row_dict), called by the caller of the table
UpdateRowHash ==
    /\ primary_column # 0
    /\ \E row_dict \in HashRowInputs :
          Ended("update_row_hash", update_row_hash(Table, row_dict))

\* column.add_to_column(data) on a column object; set.add raises TypeError for an
\* unhashable value.
add_to_column_at(t, i, data) ==
    IF t.columns[i].is_unique /\ ~Hashable(data) THEN [err |-> "TypeError", t |-> t]
    ELSE [err |-> OK,
          t |-> [t EXCEPT !.unique_data =
                    SetUnique(@, i, add_to_column(t.columns[i], UniqueOf(t, i), data))]]

\* column.remove_from_column(data) on a column object; "data in set" raises
\* TypeError for an unhashable value.
remove_from_column_at(t, i, data) ==
    IF t.columns[i].is_unique /\ ~Hashable(data) THEN [err |-> "TypeError", t |-> t]
    ELSE LET r == remove_from_column(t.columns[i], UniqueOf(t, i), data)
         IN [err |-> r.err, t |-> [t EXCEPT !.unique_data = SetUnique(@, i, r.uniq)]]

AddToColumn ==
    \E i \in DOMAIN columns :
        \E data \in InputValues(columns[i]) \cap DirectValues :
            Ended("add_to_column", add_to_column_at(Table, i, data))

RemoveFromColumn ==
    \E i \in DOMAIN columns :
        \E data \in InputValues(columns[i]) \cap DirectValues :
            Ended("remove_from_column", remove_from_column_at(Table, i, data))

\* Table.sort_rows with key=None, its default: the lambda reads primary_hash[k] for
\* the first key of row_order and then calls None.
sort_rows_default_key(t) ==
    IF t.row_order = <<>> THEN [err |-> OK, t |-> t]
    ELSE IF t.row_order[1] \notin DictKeys(t.primary_hash) THEN [err |-> "KeyError", t |-> t]
    ELSE [err |-> "TypeError", t |-> t]

\* table.sort_rows()
SortRowsDefaultKey ==
    /\ primary_column # 0
    /\ Ended("sort_rows", sort_rows_default_key(Table))

\* table.filter_rows(condition, output_format); the value it returns is dropped
FilterRows ==
    /\ primary_column # 0
    /\ \E condition \in FilterInputs, output_format \in OutputFormats :
          LET r == filter_rows(Table, condition, output_format)
          IN Ended("filter_rows", [err |-> r.err, t |-> r.t])

\* The calls of the table's row lifecycle: construction, the three row operations,
\* sorting and filtering. The snapshot calls, the calls on the bookkeeping itself
\* and the calls that only read follow in next-state relations of their own
\* (NextSnapshot, NextHash, NextColumn, NextValidate, NextFilter, NextRender).
Next ==
    \/ Construct
    \/ AddRow
    \/ DeleteRow
    \/ UpdateRow
    \/ SortRows
    \/ FilterRows

Spec == Init /\ [][Next]_vars

\* The calls that build a table and change its rows and their order, with the
\* snapshot calls: a save, any calls after it, and a load of the file as the save
\* left it.
NextSnapshot ==
    \/ Construct
    \/ AddRow
    \/ DeleteRow
    \/ SortRows
    \/ Save
    \/ Load

SpecSnapshot == Init /\ [][NextSnapshot]_vars

\* The calls that build a table and change its rows, with the call that adds every
\* stored row to the index again and the sort with the default key.
NextHash ==
    \/ Construct
    \/ AddRow
    \/ DeleteRow
    \/ UpdateRow
    \/ UpdateFullHash
    \/ SortRowsDefaultKey

SpecHash == Init /\ [][NextHash]_vars

\* The calls that build a table and add and delete rows, with the calls a caller
\* makes on the bookkeeping itself: storing a row in the hashes, and committing and
\* releasing a value on a column object.
NextColumn ==
    \/ Construct
    \/ AddRow
    \/ DeleteRow
    \/ UpdateRowHash
    \/ AddToColumn
    \/ RemoveFromColumn

SpecColumn == Init /\ [][NextColumn]_vars

----------------------------------------------------------------------------
\* Properties

StoredKeys == DictKeys(primary_hash)
StoredRow(k) == DictGet(primary_hash, k)

\* The column list marks exactly one column primary.
OnePrimary == Cardinality({i \in DOMAIN columns : columns[i].is_primary_key}) = 1

\* The last call was op and it raised / returned.
Raised(op) == outcome.op = op /\ outcome.err # OK
Returned(op) == outcome.op = op /\ outcome.err = OK

\* C1: uniqueness. After any sequence of calls that all returned, no two stored rows
\* with distinct primary keys hold the same (non-null) value in a unique column.
C1_Uniqueness ==
    (primary_column # 0 /\ failures = 0) =>
        \A i \in DOMAIN columns :
            columns[i].is_unique =>
                \A k1, k2 \in StoredKeys :
                    (k1 # k2 /\ StoredRow(k1)[columns[i].name] # PyNone)
                        => StoredRow(k1)[columns[i].name] # StoredRow(k2)[columns[i].name]

\* C2: index consistency. In every reachable state of a table with one primary
\* column, for every index and every value v a stored row holds in its column, the
\* bucket of v exists and is exactly the set of keys of the stored rows holding v.
C2_IndexConsistency ==
    (primary_column # 0 /\ OnePrimary) =>
        \A c \in DOMAIN index_hash :
            \A k \in StoredKeys :
                LET v == StoredRow(k)[c]
                IN /\ v \in DOMAIN index_hash[c]
                   /\ index_hash[c][v] = {k2 \in StoredKeys : StoredRow(k2)[c] = v}

\* The errors add_row raises from its validation loop: a missing column, the
\* accessor of a missing default, and the three errors of is_data_valid.
AddRowValidationErrors ==
    {"MissingDataError", "ValueError", "InvalidTypeError", "NullValueError",
     "DuplicateValueError"}

\* C3: add_row is atomic. A call of add_row that fails for a missing column, a
\* missing default, InvalidType, NullValue or DuplicateValue, on whichever column,
\* leaves the columns' sets, the primary store, the indexes and the row order as
\* they were.
C3_AddRowAtomic ==
    [][(outcome'.op = "add_row" /\ outcome'.err \in AddRowValidationErrors)
          => UNCHANGED <<columns, unique_data, primary_column, primary_hash,
                         index_hash, row_order>>]_vars

\* C3 witness: add_row was rejected as a duplicate on a table that holds rows.
C3_Witness ==
    /\ outcome = [op |-> "add_row", err |-> "DuplicateValueError"]
    /\ Len(primary_hash) >= 1
    /\ \E c \in DOMAIN index_hash : index_hash[c] # EmptyDict

\* C4: update_row is atomic. A call of update_row that raises, on a table with one
\* primary column, leaves the primary store, the columns' sets and the indexes as
\* they were.
C4_UpdateRowAtomic ==
    [][(OnePrimary /\ outcome'.op = "update_row" /\ outcome'.err # OK)
          => UNCHANGED <<primary_hash, unique_data, index_hash>>]_vars

\* C5: delete_row is atomic. A call of delete_row that raises, on a table with one
\* primary column, leaves the primary store, the row order, the columns' sets and
\* the indexes as they were.
C5_DeleteRowAtomic ==
    [][(OnePrimary /\ outcome'.op = "delete_row" /\ outcome'.err # OK)
          => UNCHANGED <<primary_hash, row_order, unique_data, index_hash>>]_vars

\* C6: membership-set exactness. After any sequence of calls that all returned, the
\* set of each unique column is exactly the set of non-null values the stored rows
\* hold in that column.
C6_MembershipExact ==
    (primary_column # 0 /\ failures = 0) =>
        \A i \in DOMAIN unique_data :
            unique_data[i] = {StoredRow(k)[columns[i].name] : k \in StoredKeys} \ {PyNone}

\* C7: round trip. Loading the file a save of the table as it is has written
\* succeeds, and the loaded table has the same rows, the same row order and the
\* same column schema.
C7_RoundTrip ==
    [][(outcome'.op = "load_table_from_json" /\ file = <<save_table_as_json(Table)>>)
          => /\ outcome'.err = OK
             /\ DictKeys(primary_hash') = DictKeys(primary_hash)
             /\ \A k \in DictKeys(primary_hash) :
                    DictGet(primary_hash', k) = DictGet(primary_hash, k)
             /\ row_order' = row_order
             /\ columns' = columns]_vars

\* C8: constructing a Table from a column list with more than one column marked
\* primary fails, and no Table is created.
C8_TwoPrimaryFails ==
    (outcome.op = "Table"
        /\ Cardinality({i \in DOMAIN columns : columns[i].is_primary_key}) > 1)
        => (outcome.err # OK /\ primary_column = 0)

\* C9: constructing a Table from a column list with no primary column raises
\* ValueError; with exactly one it returns a table with an empty primary store, an
\* empty row order, and an empty index for each indexed non-primary column and for
\* no other column.
C9_Construct ==
    outcome.op = "Table" =>
        /\ (\A i \in DOMAIN columns : ~columns[i].is_primary_key)
              => (outcome.err = "ValueError" /\ primary_column = 0)
        /\ OnePrimary
              => /\ outcome.err = OK
                 /\ primary_column # 0
                 /\ columns[primary_column].is_primary_key
                 /\ primary_hash = <<>>
                 /\ row_order = <<>>
                 /\ DOMAIN index_hash =
                        {columns[i].name : i \in {j \in DOMAIN columns :
                            columns[j].is_indexed /\ ~columns[j].is_primary_key}}
                 /\ \A c \in DOMAIN index_hash : index_hash[c] = EmptyDict

\* C9 witness: a Table was built from a list with one primary column and another
\* indexed column; the primary column, indexed as it is, got no index.
C9_Witness ==
    /\ Returned("Table")
    /\ OnePrimary
    /\ \E i \in DOMAIN columns : ~columns[i].is_primary_key /\ columns[i].is_indexed
    /\ columns[primary_column].is_indexed
    /\ columns[primary_column].name \notin DOMAIN index_hash

\* C10: add_row with a (non-null) value in a unique column that a stored row
\* already holds in that column is not accepted: on a table with one primary
\* column and after calls that all returned, a call of add_row that returns has
\* stored a row sharing no unique column's value with the rows stored before.
C10_DuplicateRejected ==
    [][(OnePrimary /\ failures = 0 /\ outcome'.op = "add_row" /\ outcome'.err = OK)
          => LET new_row == DictGet(primary_hash', row_order'[Len(row_order')])
             IN \A i \in DOMAIN columns :
                    columns[i].is_unique =>
                        \A k \in StoredKeys :
                            \/ new_row[columns[i].name] = PyNone
                            \/ new_row[columns[i].name] # StoredRow(k)[columns[i].name]]_vars

\* C11: a call of add_row that returns has appended the row's primary key at the end
\* of the row order (the earlier entries keep their places), stored the row, a value
\* for every column, under that key, added the row's value to the set of each unique
\* column, and added the key to the bucket of the row's value in every index, a new
\* bucket when there was none.
C11_AddRowCommit ==
    [][(outcome'.op = "add_row" /\ outcome'.err = OK)
          => LET k == row_order'[Len(row_order')]
                 row == DictGet(primary_hash', k)
             IN /\ row_order' = Append(row_order, k)
                /\ k \in DictKeys(primary_hash')
                /\ DOMAIN row = ColumnNames(columns)
                /\ row[columns[primary_column].name] = k
                /\ \A k2 \in StoredKeys \ {k} :
                       k2 \in DictKeys(primary_hash') /\ DictGet(primary_hash', k2) = StoredRow(k2)
                /\ \A i \in DOMAIN unique_data :
                       unique_data'[i] = unique_data[i] \cup {row[columns[i].name]}
                /\ DOMAIN index_hash' = DOMAIN index_hash
                /\ \A c \in DOMAIN index_hash :
                       /\ row[c] \in DOMAIN index_hash'[c]
                       /\ index_hash'[c][row[c]] =
                              (IF row[c] \in DOMAIN index_hash[c]
                               THEN index_hash[c][row[c]] ELSE {}) \cup {k}]_vars

\* C11 witness: add_row returned after adding the key of a second row to a bucket
\* that held the key of the first.
C11_Witness ==
    /\ Returned("add_row")
    /\ Len(row_order) = 2
    /\ \E c \in DOMAIN index_hash : \E v \in DOMAIN index_hash[c] :
           Cardinality(index_hash[c][v]) = 2

\* C12: a call of delete_row(k) that returns leaves k absent from the primary store,
\* from the row order and from every bucket of every index, has released the
\* deleted row's values from the sets of the unique columns, and leaves the other
\* rows, their order and their index entries as they were.
C12_DeleteRowCommit ==
    [][(outcome'.op = "delete_row" /\ outcome'.err = OK)
          => \E k \in StoredKeys :
                LET row == StoredRow(k)
                IN /\ primary_hash' = DictPop(primary_hash, k)
                   /\ k \notin SeqToSet(row_order')
                   /\ row_order' = SelectSeq(row_order, LAMBDA x : x # k)
                   /\ \A i \in DOMAIN unique_data :
                          unique_data'[i] = unique_data[i] \ {row[columns[i].name]}
                   /\ DOMAIN index_hash' = DOMAIN index_hash
                   /\ \A c \in DOMAIN index_hash :
                          /\ \A v \in DOMAIN index_hash'[c] :
                                 /\ k \notin index_hash'[c][v]
                                 /\ v \in DOMAIN index_hash[c]
                                 /\ index_hash'[c][v] = index_hash[c][v] \ {k}
                          /\ \A v \in DOMAIN index_hash[c] :
                                 index_hash[c][v] \ {k} # {} => v \in DOMAIN index_hash'[c]]_vars

\* No bucket of any index is an empty set.
NoEmptyBucket ==
    \A c \in DOMAIN index_hash : \A v \in DOMAIN index_hash[c] : index_hash[c][v] # {}

\* C13: no bucket of an index is ever an empty set, and a call of delete_row or
\* update_row that returns leaves no key v in a column's index when the row it
\* deleted, or updated away from v, was the only stored row holding v in that column.
C13_Pruning ==
    [][/\ NoEmptyBucket /\ NoEmptyBucket'
       /\ (outcome'.op \in {"delete_row", "update_row"} /\ outcome'.err = OK)
             => \A k \in StoredKeys : \A c \in DOMAIN index_hash :
                    LET v == StoredRow(k)[c]
                    IN (/\ k \in DictKeys(primary_hash') => DictGet(primary_hash', k)[c] # v
                        /\ \A k2 \in StoredKeys \ {k} : StoredRow(k2)[c] # v
                        /\ primary_hash' # primary_hash)
                          => v \notin DOMAIN index_hash'[c]]_vars

\* C14: in every state of a constructed table, delete_row(k) and update_row(k, ...)
\* with a key k that is not in the primary store raise MissingDataError and leave
\* the primary store, the row order, the columns' sets and the indexes as they are.
C14_MissingKey ==
    primary_column # 0 =>
        \A k \in KeyInputs \ StoredKeys :
            /\ delete_row(Table, k) = [err |-> "MissingDataError", t |-> Table]
            /\ \A kwargs \in UpdateInputs :
                   update_row(Table, k, kwargs) = [err |-> "MissingDataError", t |-> Table]

\* C14 witness: delete_row raised MissingDataError on a table that holds one row and
\* whose row order and unique sets match the store, so for a key that is not stored.
C14_Witness ==
    /\ outcome = [op |-> "delete_row", err |-> "MissingDataError"]
    /\ Cardinality(StoredKeys) = 1
    /\ Len(row_order) = 1
    /\ SeqToSet(row_order) = StoredKeys
    /\ unique_data[primary_column] = StoredKeys

\* The positions of the columns that row_dict omits.
Omitted(row_dict) == {i \in DOMAIN columns : columns[i].name \notin DOMAIN row_dict}

\* row_dict with the default of every column it omits.
WithDefaults(row_dict) ==
    [n \in ColumnNames(columns) |->
        IF n \in DOMAIN row_dict THEN row_dict[n]
        ELSE columns[CHOOSE i \in DOMAIN columns : columns[i].name = n].default_data]

\* What a call add_row(take_default=True, **row_dict) that returns has stored: the
\* default of every omitted column and the given value of every other column.
DefaultsStored(row_dict) ==
    LET r == add_row(Table, TRUE, row_dict)
        pname == columns[primary_column].name
    IN r.err = OK =>
          /\ \A i \in Omitted(row_dict) : columns[i].has_default
          /\ WithDefaults(row_dict)[pname] \in DictKeys(r.t.primary_hash)
          /\ DictGet(r.t.primary_hash, WithDefaults(row_dict)[pname]) = WithDefaults(row_dict)

\* C15 as stated: in every state of a constructed table, add_row without defaults
\* raises MissingDataError for every row that omits a column; add_row with defaults
\* that returns has stored the default of every omitted column and the given value
\* of every other column.
C15_MissingOrDefault ==
    primary_column # 0 =>
        \A row_dict \in RowInputs :
            /\ Omitted(row_dict) # {}
                  => add_row(Table, FALSE, row_dict).err = "MissingDataError"
            /\ DefaultsStored(row_dict)

\* C15 amended: add_row without defaults, for a row that omits a column, raises and
\* leaves the table as it is: the error of the first column, in column order, before
\* the first omitted one whose value is not valid, MissingDataError when there is
\* none. The part on defaults is as stated.
C15_FirstErrorInColumnOrder ==
    primary_column # 0 =>
        \A row_dict \in RowInputs :
            /\ Omitted(row_dict) # {}
                  => LET m == CHOOSE i \in Omitted(row_dict) :
                                  \A j \in Omitted(row_dict) : i <= j
                         invalid == {i \in 1..(m - 1) :
                                        is_data_valid(columns[i], UniqueOf(Table, i),
                                                      row_dict[columns[i].name]) # OK}
                         first == CHOOSE i \in invalid : \A j \in invalid : i <= j
                         r == add_row(Table, FALSE, row_dict)
                     IN /\ r.t = Table
                        /\ r.err = IF invalid = {} THEN "MissingDataError"
                                   ELSE is_data_valid(columns[first], UniqueOf(Table, first),
                                                      row_dict[columns[first].name])
            /\ DefaultsStored(row_dict)

\* C15 witness: add_row raised MissingDataError on a table that holds a row.
C15_Witness ==
    /\ outcome = [op |-> "add_row", err |-> "MissingDataError"]
    /\ Len(primary_hash) >= 1
    /\ SeqToSet(row_order) = StoredKeys

\* C16: in every state of a constructed table, a call update_row(k, **kwargs) that
\* returns has stored under k a row that holds k in the primary column, whatever
\* kwargs gives for it, the value of kwargs in every other column kwargs names, and
\* the previous value in every column it does not name; the keys of the primary
\* store are the same.
C16_UpdateMerge ==
    primary_column # 0 =>
        \A k \in StoredKeys : \A kwargs \in UpdateInputs :
            LET r == update_row(Table, k, kwargs)
                pname == columns[primary_column].name
            IN r.err = OK =>
                  /\ DictKeys(r.t.primary_hash) = StoredKeys
                  /\ \A n \in ColumnNames(columns) :
                         DictGet(r.t.primary_hash, k)[n] =
                             IF n = pname THEN k
                             ELSE IF n \in DOMAIN kwargs THEN kwargs[n]
                             ELSE StoredRow(k)[n]

\* C16 witness: update_row returned on a table of two rows.
C16_Witness ==
    /\ Returned("update_row")
    /\ Cardinality(StoredKeys) = 2
    /\ \E k \in StoredKeys : \E n \in ColumnNames(columns) : StoredRow(k)[n] = PyNone

\* C17: in every state of a constructed table, a call update_row(k, **kwargs),
\* whether it returns or raises, leaves the row order as it is and every row other
\* than k as it is, and leaves the set and the index of every column whose value
\* for k does not change exactly as they are.
C17_UpdateFrame ==
    primary_column # 0 =>
        \A k \in KeyInputs : \A kwargs \in UpdateInputs :
            LET r == update_row(Table, k, kwargs)
                pname == columns[primary_column].name
            IN /\ r.t.row_order = row_order
               /\ \A k2 \in StoredKeys \ {k} :
                      /\ k2 \in DictKeys(r.t.primary_hash)
                      /\ DictGet(r.t.primary_hash, k2) = StoredRow(k2)
               /\ k \in StoredKeys =>
                      \A i \in DOMAIN columns :
                          LET n == columns[i].name
                              new_value == IF n = pname THEN k
                                           ELSE IF n \in DOMAIN kwargs THEN kwargs[n]
                                           ELSE StoredRow(k)[n]
                          IN new_value = StoredRow(k)[n] =>
                                /\ i \in DOMAIN unique_data
                                      => r.t.unique_data[i] = unique_data[i]
                                /\ n \in DOMAIN index_hash
                                      => /\ n \in DOMAIN r.t.index_hash
                                         /\ r.t.index_hash[n] = index_hash[n]

\* C17 witness: update_row returned on a table of two rows in which an index holds
\* a bucket of one key and a bucket of the other: one column's value was moved, the
\* row order is as the rows were added.
C17_Witness ==
    /\ Returned("update_row")
    /\ Len(row_order) = 2
    /\ row_order = [i \in DOMAIN primary_hash |-> primary_hash[i].k]
    /\ \E c \in DOMAIN index_hash : Cardinality(DOMAIN index_hash[c]) = 2

\* C18: in every state of a constructed table, a call sort_rows(key, reverse) with
\* key = lambda row: row[c] leaves the primary store, the columns' sets and the
\* indexes as they are, and when it returns the new row order is the old one
\* rearranged by a permutation of its positions that puts the keys of the rows in
\* ascending order (descending for reverse=True) and keeps rows of equal key in
\* their previous relative order, for both values of reverse.
C18_SortRows ==
    primary_column # 0 =>
        \A c \in ColumnNames(columns) : \A reverse \in BOOLEAN :
            LET r == sort_rows(Table, c, reverse)
                n == Len(row_order)
            IN /\ [r.t EXCEPT !.row_order = row_order] = Table
               /\ r.err # OK => r.t.row_order = row_order
               /\ r.err = OK =>
                     /\ Len(r.t.row_order) = n
                     /\ \E p \in [1..n -> 1..n] :
                            /\ \A q1, q2 \in 1..n : q1 # q2 => p[q1] # p[q2]
                            /\ \A q \in 1..n : r.t.row_order[q] = row_order[p[q]]
                            /\ \A q1, q2 \in 1..n :
                                   q1 < q2 =>
                                      LET k1 == StoredRow(row_order[p[q1]])[c].v
                                          k2 == StoredRow(row_order[p[q2]])[c].v
                                      IN /\ IF reverse THEN k1 >= k2 ELSE k1 <= k2
                                         /\ k1 = k2 => p[q1] < p[q2]

\* C18 witness: sort_rows returned with the two rows in the order opposite to the
\* one they were added in, and the two rows hold the same value in some column.
C18_Witness ==
    /\ Returned("sort_rows")
    /\ Len(row_order) = 2
    /\ Len(primary_hash) = 2
    /\ row_order = <<primary_hash[2].k, primary_hash[1].k>>
    /\ \E n \in ColumnNames(columns) : primary_hash[1].row[n] = primary_hash[2].row[n]

\* The positions of row_order whose row satisfies the condition.
Matching(condition) ==
    {i \in DOMAIN row_order : Condition(condition, StoredRow(row_order[i]))}

\* C19: in every state of a constructed table, a call of filter_rows that returns
\* gives exactly the rows that satisfy the condition, in the order of row_order: as a
\* list, the matching rows in that order; as a table, a primary store that holds
\* exactly the matching rows of the source's row order and a row order that is the
\* source's row order restricted to the matching keys.
C19_FilterRows ==
    primary_column # 0 =>
        \A condition \in FilterInputs :
            LET l == filter_rows(Table, condition, "ListFormat")
                tb == filter_rows(Table, condition, "TableFormat")
                \* ret is row_order's matching positions, in order, mapped by Of
                InOrder(ret, Of(_)) ==
                    /\ Len(ret) = Cardinality(Matching(condition))
                    /\ \E f \in [DOMAIN ret -> Matching(condition)] :
                           /\ \A j1, j2 \in DOMAIN ret : j1 < j2 => f[j1] < f[j2]
                           /\ \A j \in DOMAIN ret : ret[j] = Of(row_order[f[j]])
                Key(k) == k
            IN /\ l.err = OK => InOrder(l.ret, StoredRow)
               /\ tb.err = OK =>
                     /\ InOrder(tb.ret.row_order, Key)
                     /\ DictKeys(tb.ret.primary_hash) =
                            {row_order[i] : i \in Matching(condition)}
                     /\ \A k \in DictKeys(tb.ret.primary_hash) :
                            DictGet(tb.ret.primary_hash, k) = StoredRow(k)

\* C19 witness: filter_rows returned on a table of two rows whose row order is not
\* the order they were added in, one of them holding 1 in a column where the other
\* does not.
C19_Witness ==
    /\ Returned("filter_rows")
    /\ Len(row_order) = 2
    /\ Len(primary_hash) = 2
    /\ row_order = <<primary_hash[2].k, primary_hash[1].k>>
    /\ \E condition \in FilterInputs : Cardinality(Matching(condition)) = 1

\* C20: a call of filter_rows, in either output format and whether it returns or
\* raises, leaves the table's primary store, row order, columns' sets and indexes
\* as they were.
C20_FilterFrame ==
    [][outcome'.op = "filter_rows"
          => UNCHANGED <<columns, primary_hash, row_order, unique_data, index_hash>>]_vars

\* C20 witness: filter_rows raised on a table that holds a row (the copy into the
\* new table was rejected, or row_order holds a key that is not stored).
C20_Witness ==
    /\ Raised("filter_rows")
    /\ Len(primary_hash) >= 1

\* Arguments of TableColumn(...) for a primary column: each supported type, with and
\* without a default, and each combination of the three flags.
PrimaryColumnArgs ==
    {Column("id", ty, hd, PyInt(1), nu, TRUE, un, ix) :
        ty \in SupportedTypes, hd \in BOOLEAN, nu \in BOOLEAN, un \in BOOLEAN, ix \in BOOLEAN}

\* A primary column is not nullable, unique and indexed.
Normalised(col) == ~col.is_nullable /\ col.is_unique /\ col.is_indexed

\* C21: constructing a column with is_primary_key=True gives, whenever it returns,
\* a column that is not nullable, unique and indexed, whatever the three flags of
\* the caller; without a default it returns for every combination of the flags; and
\* every primary column of every reachable state is so.
C21_PrimaryNormalised ==
    /\ \A a \in PrimaryColumnArgs :
           LET r == TableColumnInit(a)
           IN /\ r.err = OK => (r.col.is_primary_key /\ Normalised(r.col))
              /\ ~a.has_default => r.err = OK
    /\ \A i \in DOMAIN columns : columns[i].is_primary_key => Normalised(columns[i])

\* C21 witness: the columns of the state were built from a list whose primary
\* column the caller marked nullable, not unique and not indexed, and a Table was
\* built from them.
C21_Witness ==
    /\ \E args \in ColumnLists :
          /\ DOMAIN args = DOMAIN columns
          /\ \A i \in DOMAIN args : columns[i].name = args[i].name
          /\ \E i \in DOMAIN args :
                /\ args[i].is_primary_key /\ args[i].is_nullable
                /\ ~args[i].is_unique /\ ~args[i].is_indexed
                /\ columns[i].is_primary_key
    /\ Returned("Table")

\* Type tags that are not keys of TableColumn._repr_to_type.
UnknownTags == {"<complex>", "int"}

\* The snapshot data with the data_type tag of column i replaced.
Retagged(data, i, tag) ==
    [data EXCEPT !.columns[i] = [f \in DOMAIN @ |-> IF f = "data_type" THEN tag ELSE @[f]]]

\* C22: loading a snapshot in which some column's data_type tag is not a recognised
\* type tag fails with NonSupportedType.
C22_UnknownTagFails ==
    primary_column # 0 =>
        \A i \in DOMAIN columns, tag \in UnknownTags :
            load_table_from_json(Retagged(save_table_as_json(Table), i, tag)).err
                = "NonSupportedType"

\* The unique columns (other than the primary one) whose value update_row(primary_key,
\* **row_dict) changes.
ChangedUnique(primary_key, row_dict) ==
    {i \in DOMAIN columns :
        /\ columns[i].is_unique /\ i # primary_column
        /\ columns[i].name \in DOMAIN row_dict
        /\ row_dict[columns[i].name] # StoredRow(primary_key)[columns[i].name]}

\* C23: after an update_row that returns and changes a unique column's value from
\* a to b, the column's set contains b and not a, whether the column is indexed or
\* not: a later add_row is rejected as duplicate for b and not for a.
C23_UpdateUniqueInStep ==
    \A primary_key \in StoredKeys \cap KeyInputs, row_dict \in UpdateInputs :
        LET r == update_row(Table, primary_key, row_dict)
        IN r.err = OK =>
              \A i \in ChangedUnique(primary_key, row_dict) :
                  LET a == StoredRow(primary_key)[columns[i].name]
                      b == row_dict[columns[i].name]
                  IN /\ b \in UniqueOf(r.t, i)
                     /\ a \notin UniqueOf(r.t, i)
                     /\ b # PyNone =>
                           is_data_valid(columns[i], UniqueOf(r.t, i), b)
                               = "DuplicateValueError"
                     /\ is_data_valid(columns[i], UniqueOf(r.t, i), a)
                           # "DuplicateValueError"

\* The errors column.is_data_valid(value) returns, on the columns as they are, for
\* the values update_row(primary_key, **row_dict) names for the columns other than
\* the primary one. A value of a unique column that is in the column's set is a
\* duplicate for is_data_valid, the row's own value included.
UpdateRejections(primary_key, row_dict) ==
    {e \in {"InvalidTypeError", "NullValueError", "DuplicateValueError"} :
        \E i \in DOMAIN columns :
            /\ i # primary_column /\ columns[i].name \in DOMAIN row_dict
            /\ e = is_data_valid(columns[i], UniqueOf(Table, i), row_dict[columns[i].name])}

\* C24: update_row validates the new values before committing: an update that sets
\* columns to other values than the row holds, one of which column validation
\* rejects, fails with such an error (InvalidTypeError, NullValueError,
\* DuplicateValueError), so no stored row ever holds None in a non-nullable column
\* or, in a unique column, a value another stored row holds.
C24_UpdateValidates ==
    /\ \A primary_key \in StoredKeys \cap KeyInputs, row_dict \in UpdateInputs :
          (/\ UpdateRejections(primary_key, row_dict) # {}
           /\ \A n \in DOMAIN row_dict : row_dict[n] # StoredRow(primary_key)[n]) =>
              update_row(Table, primary_key, row_dict).err
                  \in UpdateRejections(primary_key, row_dict)
    /\ \A i \in DOMAIN columns, k \in StoredKeys :
          LET n == columns[i].name
          IN /\ ~columns[i].is_nullable => StoredRow(k)[n] # PyNone
             /\ (columns[i].is_unique /\ StoredRow(k)[n] # PyNone) =>
                   \A k2 \in StoredKeys \ {k} : StoredRow(k2)[n] # StoredRow(k)[n]

\* C25: no sequence of add_row / update_row / delete_row calls makes a column's
\* remove_from_column fail with MissingDataError. (For a key that is stored,
\* delete_row and update_row raise MissingDataError nowhere else.)
C25_ReleaseNeverFails ==
    \A primary_key \in StoredKeys \cap KeyInputs :
        /\ delete_row(Table, primary_key).err # "MissingDataError"
        /\ \A row_dict \in UpdateInputs :
              update_row(Table, primary_key, row_dict).err # "MissingDataError"

\* The indexed columns other than the primary one whose value
\* update_row(primary_key, **row_dict) changes.
ChangedIndexed(primary_key, row_dict) ==
    {i \in DOMAIN columns :
        /\ columns[i].is_indexed /\ i # primary_column
        /\ columns[i].name \in DOMAIN row_dict
        /\ row_dict[columns[i].name] # StoredRow(primary_key)[columns[i].name]}

\* self.index_hash[name][value], the empty set when there is no such bucket.
Bucket(t, name, value) ==
    IF name \in DOMAIN t.index_hash /\ value \in DOMAIN t.index_hash[name]
    THEN t.index_hash[name][value] ELSE {}

\* C26: after an update_row that returns and changes an indexed non-primary column
\* from a to b for key k, k is in the bucket of b (created or joined) and not in the
\* bucket of a; the bucket of a is removed if k was its sole member and keeps its
\* other members otherwise.
C26_UpdateMovesKey ==
    \A k \in StoredKeys \cap KeyInputs, row_dict \in UpdateInputs :
        LET r == update_row(Table, k, row_dict)
        IN r.err = OK =>
              \A i \in ChangedIndexed(k, row_dict) :
                  LET n == columns[i].name
                      a == StoredRow(k)[n]
                      b == row_dict[n]
                  IN /\ b \in DOMAIN r.t.index_hash[n]
                     /\ Bucket(r.t, n, b) = Bucket(Table, n, b) \cup {k}
                     /\ k \notin Bucket(r.t, n, a)
                     /\ IF Bucket(Table, n, a) = {k}
                        THEN a \notin DOMAIN r.t.index_hash[n]
                        ELSE /\ a \in DOMAIN r.t.index_hash[n]
                             /\ Bucket(r.t, n, a) = Bucket(Table, n, a) \ {k}

\* C27: is_data_valid(None) returns NullValueError exactly when the column is not
\* nullable; on a unique column is_data_valid(v) for v other than None returns
\* DuplicateValueError exactly when v is in the column's set; on a nullable unique
\* column is_data_valid(None) returns no error even when None is in the set.
C27_ValidateNullAndDuplicate ==
    \A i \in DOMAIN columns :
        LET column == columns[i]
            uniq == UniqueOf(Table, i)
        IN /\ is_data_valid(column, uniq, PyNone) = "NullValueError" <=> ~column.is_nullable
           /\ column.is_unique =>
                 \A v \in (InputValues(column) \cup uniq) \ {PyNone} :
                     is_data_valid(column, uniq, v) = "DuplicateValueError" <=> v \in uniq
           /\ (column.is_unique /\ column.is_nullable) =>
                 is_data_valid(column, uniq, PyNone) = OK

----------------------------------------------------------------------------
\* Validation as a call of its own: column.is_data_valid(data) on a column of the
\* table, between the other calls.

\* is_data_valid recording the value it accepted in the column's set (what
\* add_to_column does), as a validation that reserves the value would.
is_data_valid_reserving(t, i, data) ==
    LET e == is_data_valid(t.columns[i], UniqueOf(t, i), data)
    IN [err |-> e,
        t |-> IF e = OK
              THEN [t EXCEPT !.unique_data =
                       SetUnique(@, i, add_to_column(t.columns[i], UniqueOf(t, i), data))]
              ELSE t]

\* t.columns[i].is_data_valid(data): the error it returns (or raises, for an
\* unhashable value) and the table it leaves behind. Lines 93-118 assign nothing.
is_data_valid_at(t, i, data) ==
    [err |-> is_data_valid(t.columns[i], UniqueOf(t, i), data), t |-> t]

\* column.is_data_valid(data) on a column of the table; the error is returned, not
\* raised, except the TypeError of hashing a list.
IsDataValid ==
    /\ primary_column # 0
    /\ \E i \in DOMAIN columns :
          \E data \in InputValues(columns[i]) :
              LET r == is_data_valid_at(Table, i, data)
                  raised == ReadsUniqueData(columns[i], data) /\ ~Hashable(data)
              IN /\ ~raised \/ failures < MaxFailures
                 /\ columns' = r.t.columns
                 /\ unique_data' = r.t.unique_data
                 /\ primary_column' = r.t.primary_column
                 /\ primary_hash' = r.t.primary_hash
                 /\ index_hash' = r.t.index_hash
                 /\ row_order' = r.t.row_order
                 /\ file' = file
                 /\ outcome' = [op |-> "is_data_valid", err |-> r.err]
                 /\ failures' = IF raised THEN failures + 1 ELSE failures

NextValidate ==
    \/ Construct
    \/ AddRow
    \/ DeleteRow
    \/ UpdateRow
    \/ IsDataValid

SpecValidate == Init /\ [][NextValidate]_vars

\* The table after the step.
TableNext == [columns |-> columns', unique_data |-> unique_data',
              primary_column |-> primary_column', primary_hash |-> primary_hash',
              index_hash |-> index_hash', row_order |-> row_order']

\* C28: is_data_valid does not mutate state: whatever the value and the outcome,
\* the column's set and flags (and the rest of the table) are as before the call,
\* so a later add_row finds every value as valid or invalid as before the call.
C28_ValidateFrame ==
    [][outcome'.op = "is_data_valid" =>
          /\ columns' = columns /\ unique_data' = unique_data
          /\ TableNext = Table
          /\ \A j \in DOMAIN columns : \A v \in InputValues(columns[j]) :
                is_data_valid(columns'[j], UniqueOf(TableNext, j), v)
                    = is_data_valid(columns[j], UniqueOf(Table, j), v)]_vars

\* is_data_valid has returned no error on a table with a stored row and a unique
\* column for which some value is valid.
C28_Witness ==
    /\ outcome.op = "is_data_valid" /\ outcome.err = OK
    /\ StoredKeys # {}
    /\ \E i \in DOMAIN columns :
          /\ columns[i].is_unique /\ i # primary_column
          /\ \E data \in InputValues(columns[i]) \ {PyNone} :
                is_data_valid(columns[i], UniqueOf(Table, i), data) = OK

\* The columns row_dict omits that have no default.
OmittedNoDefault(row_dict) == {i \in Omitted(row_dict) : ~columns[i].has_default}

\* C29 as stated: add_row with take_default=True for a row that omits a column with
\* no default raises the ValueError of the default_data accessor and leaves the
\* table as it is.
C29_NoDefaultRaises ==
    primary_column # 0 =>
        \A row_dict \in RowInputs :
            OmittedNoDefault(row_dict) # {} =>
                LET r == add_row(Table, TRUE, row_dict)
                IN r.err = "ValueError" /\ r.t = Table

\* C29 amended: the call raises and leaves the table as it is: the error of the
\* first column, in column order, before the first omitted column with no default
\* whose value (given, or its default) is not valid, the accessor's ValueError
\* when there is none.
C29_FirstErrorInColumnOrder ==
    primary_column # 0 =>
        \A row_dict \in RowInputs :
            OmittedNoDefault(row_dict) # {} =>
                LET m == CHOOSE i \in OmittedNoDefault(row_dict) :
                             \A j \in OmittedNoDefault(row_dict) : i <= j
                    value(i) == IF columns[i].name \in DOMAIN row_dict
                                THEN row_dict[columns[i].name]
                                ELSE columns[i].default_data
                    invalid == {i \in 1..(m - 1) :
                                   is_data_valid(columns[i], UniqueOf(Table, i), value(i)) # OK}
                    first == CHOOSE i \in invalid : \A j \in invalid : i <= j
                    r == add_row(Table, TRUE, row_dict)
                IN /\ r.t = Table
                   /\ r.err = IF invalid = {} THEN "ValueError"
                              ELSE is_data_valid(columns[first], UniqueOf(Table, first),
                                                 value(first))

\* C29 witness: add_row raised the accessor's ValueError on a table that holds a row.
C29_Witness ==
    /\ outcome = [op |-> "add_row", err |-> "ValueError"]
    /\ Len(primary_hash) >= 1

\* Snapshots a caller may hand to load_table_from_json: the saved table with its
\* row_order as recorded, emptied, doubled or naming a key no row has, and with its
\* rows as recorded or with the first row recorded twice.
OrderInputs(data) ==
    {data.row_order, <<>>, data.row_order \o data.row_order, <<PyInt(MaxKey + 1)>>}

RowsInputs(data) ==
    {data.rows} \cup (IF data.rows = <<>> THEN {} ELSE {Append(data.rows, data.rows[1])})

SnapshotInputs ==
    LET data == save_table_as_json(Table)
    IN {[data EXCEPT !.row_order = ro, !.rows = rows] :
            ro \in OrderInputs(data), rows \in RowsInputs(data)}

\* The errors is_data_valid returns over the rows of a snapshot, each value checked
\* by its column holding the values of the rows before it: a value not of the
\* column's type, None in a non-nullable column, a value of the column's type that
\* an earlier row holds in a unique column.
SnapshotViolations(data) ==
    {e \in {"InvalidTypeError", "NullValueError", "DuplicateValueError"} :
        \E h \in DOMAIN data.rows, i \in DOMAIN columns :
            e = is_data_valid(columns[i],
                              {data.rows[g][columns[i].name] : g \in 1..(h - 1)},
                              data.rows[h][columns[i].name])}

\* C30: load_table_from_json inserts every row of the snapshot with add_row and
\* then takes the recorded row_order as it is, permutation of the rows' keys or
\* not; a snapshot whose rows violate a column constraint fails to load with the
\* error of a violated constraint.
C30_LoadVerbatim ==
    primary_column # 0 =>
        \A data \in SnapshotInputs :
            LET r == load_table_from_json(data)
                pname == columns[primary_column].name
            IN /\ r.err = OK =>
                     /\ r.t.row_order = data.row_order
                     /\ DictValues(r.t.primary_hash) = data.rows
                     /\ \A h \in DOMAIN data.rows :
                           r.t.primary_hash[h].k = data.rows[h][pname]
                     /\ SnapshotViolations(data) = {}
               /\ SnapshotViolations(data) # {} => r.err \in SnapshotViolations(data)

\* C30 witness: a load has returned a table whose row_order is not a permutation of
\* the keys of its rows.
C30_Witness ==
    /\ Returned("load_table_from_json")
    /\ StoredKeys # {}
    /\ SeqToSet(row_order) # StoredKeys

\* Arguments of TableColumn(...) with has_default=True for a column named as one
\* of the table's: every combination of the flags, a default of the declared type,
\* of another type, or None.
DefaultColumnArgs ==
    {Column(n, ty, TRUE, dv, nu, pk, un, ix) :
        n \in ColumnNames(columns),
        ty \in {"int", "tuple"}, dv \in {PyNone, PyInt(1), PyTuple(1)},
        nu \in BOOLEAN, pk \in BOOLEAN, un \in BOOLEAN, ix \in BOOLEAN}

\* The error the default of these arguments has by type and nullability alone.
DefaultTypeOrNullError(a) ==
    IF a.default_data # PyNone /\ ~IsInstance(a.default_data, a.data_type)
    THEN "InvalidTypeError"
    ELSE IF a.default_data = PyNone /\ (~a.is_nullable \/ a.is_primary_key)
    THEN "NullValueError"
    ELSE OK

\* C36: constructing a column with has_default=True and a default of the declared
\* type other than None succeeds whatever is_unique and is_primary_key are; the
\* construction fails with InvalidTypeError or NullValueError exactly when the
\* default violates the type or the nullability.
C36_DefaultWithUniqueness ==
    \A a \in DefaultColumnArgs : TableColumnInit(a).err = DefaultTypeOrNullError(a)

\* C32: in every state reached by add_row, update_row, delete_row and sort_rows
\* calls, failed ones included, row_order holds no key twice and its elements are
\* exactly the keys of the primary store.
C32_RowOrderAgreesWithStore ==
    /\ \A i, j \in DOMAIN row_order : row_order[i] = row_order[j] => i = j
    /\ SeqToSet(row_order) = StoredKeys

\* C33: in every state of a constructed table, for every row add_row accepts,
\* add_row followed by delete_row of the row's key returns and leaves the primary
\* store, row_order, the unique sets and the indexes as they were before the two
\* calls.
C33_AddThenDeleteRestores ==
    primary_column # 0 =>
        \A take_default \in BOOLEAN, row_dict \in RowInputs :
            LET added == add_row(Table, take_default, row_dict)
                key == added.t.row_order[Len(added.t.row_order)]
                deleted == delete_row(added.t, key)
            IN added.err = OK => (deleted.err = OK /\ deleted.t = Table)

\* C34: in every state of a constructed table, after a delete_row(k) that returns,
\* whatever updates the row has received, add_row with the values the deleted row
\* held is accepted: it is not rejected with DuplicateValueError, and it returns.
C34_ReinsertAfterDelete ==
    primary_column # 0 =>
        \A k \in StoredKeys \cap KeyInputs :
            LET deleted == delete_row(Table, k)
                again == add_row(deleted.t, FALSE, StoredRow(k))
            IN deleted.err = OK => again.err = OK

----------------------------------------------------------------------------
\* Two tables: the table filter_rows returns next to its source. A TableColumn is
\* an object: heap[a] is the object at address a, its fields and its _unique_data.
\* A table holds its columns by address and owns its primary_hash, index_hash and
\* row_order, which Table.__init__ creates (lines 234-237); a call on a table that
\* writes to a column object writes to it for every table that holds its address.
\* No call writes to a stored row: add_row stores the dict of its own keyword
\* arguments and update_row a dict it builds (lines 295, 318).

\* The column objects of the table t, in the order of t.columns.
HeapOf(t) == [i \in DOMAIN t.columns |-> [col |-> t.columns[i], uniq |-> UniqueOf(t, i)]]

\* The table t as a holder of those objects.
RefOf(t) ==
    [cols |-> [i \in DOMAIN t.columns |-> i], primary_column |-> t.primary_column,
     primary_hash |-> t.primary_hash, index_hash |-> t.index_hash,
     row_order |-> t.row_order]

\* The table at ref as the calls read it: its columns and their sets as the heap
\* has them.
Deref(heap, ref) ==
    [columns |-> [i \in DOMAIN ref.cols |-> heap[ref.cols[i]].col],
     unique_data |-> [i \in {j \in DOMAIN ref.cols : heap[ref.cols[j]].col.is_unique}
                        |-> heap[ref.cols[i]].uniq],
     primary_column |-> ref.primary_column, primary_hash |-> ref.primary_hash,
     index_hash |-> ref.index_hash, row_order |-> ref.row_order]

\* The heap and the table at ref after a call on that table has left it as t: the
\* column objects the table holds are as the call left them, the others untouched.
Written(heap, ref, t) ==
    [heap |-> [a \in DOMAIN heap |->
                  IF \E i \in DOMAIN ref.cols : ref.cols[i] = a
                  THEN LET i == CHOOSE h \in DOMAIN ref.cols : ref.cols[h] = a
                       IN [col |-> t.columns[i], uniq |-> UniqueOf(t, i)]
                  ELSE heap[a]],
     ref |-> [ref EXCEPT !.primary_column = t.primary_column,
                         !.primary_hash = t.primary_hash,
                         !.index_hash = t.index_hash,
                         !.row_order = t.row_order]]

\* clone returning the column itself (return self): no new object.
clone_self(heap, a) == [err |-> OK, heap |-> heap, addr |-> a]

\* TableColumn.clone on the object at address a: TableColumn(...) makes a new
\* object (line 208) whose __init__ gives it an empty set of its own (lines 90-91):
\* [err, heap, addr].
clone_object(heap, a) ==
    LET r == clone(heap[a].col)
    IN IF r.err # OK THEN [err |-> r.err, heap |-> heap, addr |-> a]
       ELSE [err |-> OK, heap |-> Append(heap, [col |-> r.col, uniq |-> {}]),
             addr |-> Len(heap) + 1]

\* [column.clone() for column in self.columns] from the i-th column on (line 433):
\* [err, heap, cols], cols the addresses of the clones.
RECURSIVE CloneColumns(_, _, _, _)
CloneColumns(heap, addrs, i, cols) ==
    IF i > Len(addrs) THEN [err |-> OK, heap |-> heap, cols |-> cols]
    ELSE LET c == clone_object(heap, addrs[i])
         IN IF c.err # OK THEN [err |-> c.err, heap |-> c.heap, cols |-> cols]
            ELSE CloneColumns(c.heap, addrs, i + 1, Append(cols, c.addr))

\* filter_rows in table mode on the table at ref (lines 429-436): the filtered rows,
\* the clones of the columns, Table(columns=clones) and add_row(**row) for every
\* filtered row, each writing to the column objects the new table holds:
\* [err, heap, ret], ret the new table.
filter_rows_table(heap, ref, condition) ==
    LET f == filter_rows(Deref(heap, ref), condition, "ListFormat")
        cl == CloneColumns(heap, ref.cols, 1, <<>>)
        fresh == [cols |-> cl.cols, primary_column |-> 0, primary_hash |-> <<>>,
                  index_hash |-> EmptyDict, row_order |-> <<>>]
        init == TableInit(Deref(cl.heap, fresh).columns, Deref(cl.heap, fresh).unique_data)
        r == FilterAddRows(init.t, f.ret, 1)
        done == Written(cl.heap, fresh, r.t)
    IN IF f.err # OK THEN [err |-> f.err, heap |-> heap, ret |-> ref]
       ELSE IF cl.err # OK THEN [err |-> cl.err, heap |-> cl.heap, ret |-> ref]
       ELSE IF init.err # OK THEN [err |-> init.err, heap |-> cl.heap, ret |-> ref]
       ELSE [err |-> r.err, heap |-> done.heap, ret |-> done.ref]

\* The calls that build a table, change its rows and filter it.
NextFilter ==
    \/ Construct
    \/ AddRow
    \/ DeleteRow
    \/ UpdateRow
    \/ FilterRows

SpecFilter == Init /\ [][NextFilter]_vars

\* The tables the calls of a caller leave a table t as: every add_row, delete_row,
\* update_row and sort_rows of the inputs, returning or raising.
CallsOn(t) ==
    {add_row(t, take_default, row_dict).t : take_default \in BOOLEAN, row_dict \in RowInputs}
        \cup {delete_row(t, k).t : k \in KeyInputs}
        \cup {update_row(t, k, row_dict).t : k \in KeyInputs, row_dict \in UpdateInputs}
        \cup {sort_rows(t, c, reverse).t : c \in ColumnNames(columns), reverse \in BOOLEAN}

\* C35: a table filter_rows returns shares no bookkeeping with its source: every
\* add_row, update_row, delete_row and sort_rows on the result leaves the source's
\* primary store, row_order, unique sets and indexes as they were, and every such
\* call on the source leaves the result as it was.
C35_FilteredIndependent ==
    primary_column # 0 =>
        \A source \in {RefOf(Table)}, on_source \in {CallsOn(Table)} :
            \A condition \in FilterInputs :
                \A f \in {filter_rows_table(HeapOf(Table), source, condition)} :
                    f.err = OK =>
                        \A result \in {Deref(f.heap, f.ret)} :
                            /\ Deref(f.heap, source) = Table
                            /\ \A t \in CallsOn(result) :
                                  Deref(Written(f.heap, f.ret, t).heap, source) = Table
                            /\ \A t \in on_source :
                                  Deref(Written(f.heap, source, t).heap, f.ret) = result

\* C35 witness: filter_rows has returned on a table with a unique column besides
\* the primary one; some condition gives a table with a row in it, on which some
\* add_row is accepted.
C35_Witness ==
    /\ Returned("filter_rows")
    /\ \E i \in DOMAIN columns : columns[i].is_unique /\ i # primary_column
    /\ \E condition \in FilterInputs :
          LET f == filter_rows_table(HeapOf(Table), RefOf(Table), condition)
          IN /\ f.err = OK
             /\ Len(f.ret.row_order) >= 1
             /\ \E row_dict \in RowInputs :
                   add_row(Deref(f.heap, f.ret), FALSE, row_dict).err = OK

----------------------------------------------------------------------------
\* Rendering: RenderTable.__init__ (what get_table_render builds before it draws).
\* A Python str is a sequence of characters.

DigitChars == <<"0", "1", "2", "3", "4", "5", "6", "7", "8", "9">>

\* str(n) for an int n >= 0.
RECURSIVE StrInt(_)
StrInt(n) == IF n < 10 THEN <<DigitChars[n + 1]>>
             ELSE Append(StrInt(n \div 10), DigitChars[(n % 10) + 1])

\* str(data): "None", the digits of an int, "(n,)" for the tuple, "[n]" for the list.
Str(data) ==
    CASE data.t = "NoneType" -> <<"N", "o", "n", "e">>
      [] data.t = "int" -> StrInt(data.v)
      [] data.t = "tuple" -> <<"(">> \o StrInt(data.v) \o <<",", ")">>
      [] data.t = "list" -> <<"[">> \o StrInt(data.v) \o <<"]">>

\* The characters of the column names of the column lists.
NameStr(name) ==
    CASE name = "id" -> <<"i", "d">>
      [] name = "id2" -> <<"i", "d", "2">>
      [] name = "a" -> <<"a">>
      [] name = "u" -> <<"u">>
      [] name = "t" -> <<"t">>
      [] name = "d" -> <<"d">>
      [] name = "l" -> <<"l">>

\* max(len(cell) for cell in column) over a non-empty sequence of strings.
RECURSIVE MaxLenFrom(_, _, _)
MaxLenFrom(column, i, best) ==
    IF i > Len(column) THEN best
    ELSE MaxLenFrom(column, i + 1, IF Len(column[i]) > best THEN Len(column[i]) ELSE best)

\* RenderTable.__init__ taking the widths from the cells alone, without the header
\* (zip(*self.rows)): with no rows there is no width at all.
RenderTableInitCellsOnly(t) ==
    IF \E i \in DOMAIN t.row_order : t.row_order[i] \notin DictKeys(t.primary_hash)
    THEN [err |-> "KeyError", headers |-> <<>>, rows |-> <<>>, column_widths |-> <<>>]
    ELSE LET headers == [j \in DOMAIN t.columns |-> t.columns[j].name]
             rows == [i \in DOMAIN t.row_order |->
                        [j \in DOMAIN headers |->
                            Str(DictGet(t.primary_hash, t.row_order[i])[headers[j]])]]
             zipped == IF rows = <<>> THEN <<>>
                       ELSE [j \in DOMAIN headers |-> [i \in DOMAIN rows |-> rows[i][j]]]
         IN [err |-> OK, headers |-> headers, rows |-> rows,
             column_widths |-> [j \in DOMAIN zipped |-> MaxLenFrom(zipped[j], 1, 0)]]

\* RenderTable.__init__(table, style): [err, headers, rows, column_widths].
\* table.primary_hash[primary_key] raises KeyError for a key of row_order that is
\* not stored; zip(self.headers, *self.rows) gives, for each column, the header
\* followed by the column's cell of every row.
RenderTableInit(t) ==
    IF \E i \in DOMAIN t.row_order : t.row_order[i] \notin DictKeys(t.primary_hash)
    THEN [err |-> "KeyError", headers |-> <<>>, rows |-> <<>>, column_widths |-> <<>>]
    ELSE LET headers == [j \in DOMAIN t.columns |-> t.columns[j].name]
             rows == [i \in DOMAIN t.row_order |->
                        [j \in DOMAIN headers |->
                            Str(DictGet(t.primary_hash, t.row_order[i])[headers[j]])]]
             zipped == [j \in DOMAIN headers |->
                          <<NameStr(headers[j])>> \o [i \in DOMAIN rows |-> rows[i][j]]]
         IN [err |-> OK, headers |-> headers, rows |-> rows,
             column_widths |-> [j \in DOMAIN zipped |-> MaxLenFrom(zipped[j], 1, 0)]]

\* table.get_table_render(style): the string it returns is dropped.
Render ==
    /\ primary_column # 0
    /\ LET r == RenderTableInit(Table)
       IN Ended("get_table_render", [err |-> r.err, t |-> Table])

NextRender ==
    \/ Construct
    \/ AddRow
    \/ DeleteRow
    \/ UpdateRow
    \/ SortRows
    \/ Render

SpecRender == Init /\ [][NextRender]_vars

\* The length of str(cell) of column j in the row of row_order[i].
CellLen(i, j) == Len(Str(StoredRow(row_order[i])[columns[j].name]))

\* C31: a rendering that returns has, for each column, a width that is the larger
\* of the length of the header and the length of the longest str(cell) of the
\* column over the rows of row_order; with no row in row_order the rendering does
\* not fail and each width is the length of the header.
C31_RenderWidths ==
    primary_column # 0 =>
        LET r == RenderTableInit(Table)
        IN /\ r.err = OK =>
                 /\ DOMAIN r.column_widths = DOMAIN columns
                 /\ \A j \in DOMAIN columns :
                       LET w == r.column_widths[j]
                           lens == {Len(NameStr(columns[j].name))}
                                       \cup {CellLen(i, j) : i \in DOMAIN row_order}
                       IN w \in lens /\ \A n \in lens : n <= w
           /\ row_order = <<>> =>
                 /\ r.err = OK
                 /\ \A j \in DOMAIN columns :
                       r.column_widths[j] = Len(NameStr(columns[j].name))

\* C31 witness: a rendering has returned on a table with rows where one column's
\* longest cell is longer than its header and another's is shorter.
C31_Witness ==
    /\ Returned("get_table_render")
    /\ row_order # <<>>
    /\ SeqToSet(row_order) = StoredKeys
    /\ \E j \in DOMAIN columns : \E i \in DOMAIN row_order :
          CellLen(i, j) > Len(NameStr(columns[j].name))
    /\ \E j \in DOMAIN columns : \A i \in DOMAIN row_order :
          CellLen(i, j) < Len(NameStr(columns[j].name))

====
